---- MODULE Spec2Model ----
(***************************************************************************)
(* A model of the cooperative task executor of rust_os (src/src/task.rs,   *)
(* src/src/task/executor.rs, src/src/task/keyboard.rs) together with the   *)
(* interrupt handlers and output locks it shares the CPU with              *)
(* (src/src/interrupts.rs, src/src/vga.rs, src/src/serial.rs).             *)
(*                                                                         *)
(* One hardware thread.  The main context advances one source step per     *)
(* action; an interrupt handler runs with interrupts disabled from entry   *)
(* to iret, so it is one atomic action taken between two steps of the main *)
(* context, and only while the interrupt flag is set.                      *)
(***************************************************************************)
EXTENDS Integers, Sequences, FiniteSets, TLC

\* ------------------------------------------------------------------ bounds

\* Number of Task::new calls explored.
MaxTasks == 3

\* Number of Task::new calls explored under fairness.
MaxLiveTasks == 2

\* Capacity of the ready queue explored.  executor.rs:33 fixes it at 100; the
\* model keeps the code's behaviour at the capacity and explores a small one.
QueueCap == 2

\* Number of add_scancode calls explored.
MaxKeys == 4

\* Number of Tasks given to a SimpleExecutor.
MaxSimpleTasks == 3

\* Largest number of polls for which a future of a SimpleExecutor Task returns
\* Pending before it returns Ready.
MaxPending == 2

\* Number of Writer::write_byte calls explored on one Writer: enough to fill a
\* line and wrap.
MaxWrites == 83

\* Number of those calls that write the newline byte.
MaxNewlines == 1

\* Capacity of the scancode queue explored.  keyboard.rs:39 fixes it at 100; the
\* model keeps the code's behaviour at the capacity and explores a small one.
ScancodeCap == 2

\* The scancodes the keyboard controller delivers in the explored runs: the
\* make code and the break code of one key of scancode set 1.
Scancodes == {30, 158}

NoTask == -1

\* core::ptr::null_mut(), among pointers given as offsets from HEAP_START.
null_mut == -1

TaskIds == 0 .. (MaxTasks - 1)

\* ------------------------------------------------------------------ state

VARIABLES
    NEXT_ID,       \* task.rs:23, the static AtomicU64 of TaskId::new
    issued,        \* every TaskId handed out by TaskId::new, in order (history)
    created,       \* ids of Tasks built by Task::new and not yet moved into spawn
    tasks,         \* Executor.tasks: the keys of the BTreeMap<TaskId, Task>
    task_queue,    \* Executor.task_queue: ArrayQueue<TaskId>
    waker_cache,   \* Executor.waker_cache: the keys of the BTreeMap<TaskId, Waker>
    handles,       \* ids whose Waker has been cloned out of a poll and is still held
    fut,           \* per task: the state of its future
    pc,            \* position of the main context
    cur,           \* task_id bound by the `while let` of run_ready_tasks
    result,        \* value returned by task.poll for cur
    int_flag,      \* the CPU's interrupt flag (RFLAGS.IF)
    panicked,      \* message of the panic that stopped the kernel, or "none"
    completions,   \* number of polls that returned Poll::Ready (history)
    done,          \* ids whose poll has returned Poll::Ready (history)
    ev,            \* the operation performed by the last step (history)
    scq_init,      \* keyboard.rs:19, whether the OnceCell SCANCODE_QUEUE is initialised
    SCANCODE_QUEUE, \* keyboard.rs:19, the ArrayQueue<u8> inside the OnceCell
    WAKER,         \* keyboard.rs:24, the task whose Waker the AtomicWaker holds
    kstep,         \* position of the running print_keypresses future inside its poll
    scancode,      \* the byte bound by `while let Some(scancode)` of print_keypresses
    keys,          \* number of add_scancode calls so far (history)
    accepted,      \* bytes that add_scancode pushed on the queue, in order (history)
    delivered,     \* bytes that poll_next returned in Ready(Some(..)), in order (history)
    entry,         \* which entry point the bootloader jumped to, or "none"
    bpc,           \* position of the boot sequence
    pr_kind,       \* the _print call in progress: "none", "vga" or "serial"
    pr_step,       \* position inside that _print
    pr_bytes,      \* bytes that _print still has to write
    saved_if,      \* the flag that without_interrupts saved
    exc_if,        \* RFLAGS.IF pushed by the exception in progress
    WRITER,        \* vga.rs:178, holder of the spin::Mutex<Writer>
    SERIAL1,       \* serial.rs:18, holder of the spin::Mutex<SerialPort>
    PICS,          \* interrupts.rs:41, holder of the spin::Mutex<ChainedPics>
    column_position, \* vga.rs:87, Writer.column_position
    spin,          \* the lock an interrupt handler spins on, or "none"
    hvec,          \* vector of the hardware interrupt handled last, 0 before the first
    hlog,          \* what the handler of that interrupt did, in order (history)
    h_calls,       \* number of GlobalAlloc calls made so far (history)
    h_last,        \* the last GlobalAlloc call and what it returned (history)
    h_need,        \* end of the heap region the accepted requests add up to (history)
    h_live,        \* blocks returned by alloc and not passed to dealloc since (history)
    memory_map,    \* BootInfo.memory_map: the regions of physical memory
    fa_next,       \* BootInfoFrameAllocator: number of frames handed out
    fa_out,        \* frames returned by allocate_frame, in order (history)
    level_4_table_frame, \* CR3: the frame of the active level 4 table
    tables,        \* the page tables: entry of each (table frame, index) in use
    ih_pc,         \* position of init_heap: "none", "loop", "Ok" or its Err value
    ih_page,       \* number of heap pages init_heap has mapped
    assigned,      \* frame that init_heap allocated for each page it mapped (history)
    tr,            \* the last translate_addr call and its outcome (history)
    gdtr,          \* the descriptor table the CPU uses: "boot" or "GDT" (gdt.rs:47)
    task_register, \* the task-state segment loaded by load_tss, or "none"
    idtr,          \* the interrupt table loaded: "none", "IDT" or "TEST_IDT"
    pic_offsets,   \* the vector offsets the two PICs are programmed with
    init_log,      \* the initialisation operations performed, in order (history)
    rsp,           \* the stack the stack pointer is in: "boot", "guard" or "ist0"
    frames_left,   \* call frames that still fit on the boot stack
    exc,           \* the exception delivered last and how the CPU entered it
    reported,      \* what the exception handlers reported, in order (history)
    simple_task_queue, \* simple_executor.rs:11, SimpleExecutor.task_queue: VecDeque<Task>
    simple_pc,     \* position of the caller of SimpleExecutor: "setup", "run", "poll", "returned"
    task,          \* the Task bound by the `while let` of SimpleExecutor::run
    remaining,     \* per Task: polls of its future that still return Pending
    spawned,       \* Tasks passed to SimpleExecutor::spawn, in order (history)
    polled,        \* Tasks polled by SimpleExecutor::run, in order (history)
    finished,      \* Tasks whose poll returned Ready to SimpleExecutor::run (history)
    writer,        \* vga.rs:86, a Writer: its column_position and buffer.chars
    vga_writes,    \* number of write_byte calls on that Writer (history)
    vga_newlines,  \* number of those calls that wrote b'\n' (history)
    vga_last       \* the last write_byte call on it and the cell it wrote (history)

kbdVars == <<scq_init, SCANCODE_QUEUE, WAKER, kstep, scancode, keys, accepted,
             delivered>>

bootVars == <<entry, bpc, pr_kind, pr_step, pr_bytes, saved_if, exc_if, WRITER,
              SERIAL1, PICS, column_position, spin, hvec, hlog>>

heapVars == <<h_calls, h_last, h_need, h_live>>

simpleVars == <<simple_task_queue, simple_pc, task, remaining, spawned, polled, finished>>

vgaVars == <<writer, vga_writes, vga_newlines, vga_last>>

memVars == <<memory_map, fa_next, fa_out, level_4_table_frame, tables, ih_pc, ih_page,
             assigned, tr>>

cpuVars == <<gdtr, task_register, idtr, pic_offsets, init_log, rsp, frames_left, exc,
             reported>>

vars == <<NEXT_ID, issued, created, tasks, task_queue, waker_cache, handles, fut,
          pc, cur, result, int_flag, panicked, completions, done, ev, kbdVars, bootVars,
          heapVars, simpleVars, vgaVars, memVars, cpuVars>>

Ev(op, id) == [op |-> op, id |-> id]

Count(q, x) == Cardinality({i \in 1 .. Len(q) : q[i] = x})

Running == panicked = "none" /\ spin = "none"

\* ------------------------------------------------------------------ queue

\* crossbeam ArrayQueue::push on the bounded queue: Err(value) when full.
Push(q, x) ==
    IF Len(q) < QueueCap THEN [ok |-> TRUE, q |-> Append(q, x)]
    ELSE [ok |-> FALSE, q |-> q]

\* ------------------------------------------------------------------ TaskId

\* A fetch_add that forgets to add.
TaskId_new_no_add ==
    /\ issued' = Append(issued, NEXT_ID)
    /\ created' = created \cup {NEXT_ID}
    /\ NEXT_ID' = NEXT_ID
    /\ UNCHANGED <<heapVars, simpleVars, vgaVars, memVars, cpuVars>>

\* TaskId::new: NEXT_ID.fetch_add(1, Relaxed) returns the previous value.  The
\* AtomicU64 wraps at 2^64, beyond TLC's integers and beyond any run of MaxTasks
\* creations, so the addition is modelled without the wrap.
TaskId_new ==
    /\ issued' = Append(issued, NEXT_ID)
    /\ created' = created \cup {NEXT_ID}
    /\ NEXT_ID' = NEXT_ID + 1
    /\ UNCHANGED <<heapVars, simpleVars, vgaVars, memVars, cpuVars>>

\* Task::new(future): a Task with a fresh id, owned by the caller; at most n
\* Tasks are created.
Task_new(n) ==
    /\ Running
    /\ pc = "setup"
    /\ Len(issued) < n
    /\ TaskId_new
    /\ ev' = Ev("new", NEXT_ID)
    /\ UNCHANGED <<tasks, task_queue, waker_cache, handles, fut, pc, cur, result,
                   int_flag, panicked, completions, done>>
    /\ UNCHANGED kbdVars
    /\ UNCHANGED bootVars
    /\ UNCHANGED <<heapVars, simpleVars, vgaVars, memVars, cpuVars>>

\* ------------------------------------------------------------------ spawn

\* A spawn that ignores the push result.
spawn_drop_when_full(t) ==
    /\ Running
    /\ pc = "setup"
    /\ t \in created
    /\ created' = created \ {t}
    /\ tasks' = tasks \cup {t}
    /\ task_queue' = Push(task_queue, t).q
    /\ panicked' = IF t \in tasks THEN "task with same ID already in tasks" ELSE panicked
    /\ ev' = Ev("spawn", t)
    /\ UNCHANGED <<NEXT_ID, issued, waker_cache, handles, fut, pc, cur, result, int_flag,
                   completions, done>>
    /\ UNCHANGED kbdVars
    /\ UNCHANGED bootVars
    /\ UNCHANGED <<heapVars, simpleVars, vgaVars, memVars, cpuVars>>

\* Executor::spawn(task): the Task is moved in, so it leaves `created`.
spawn(t) ==
    /\ Running
    /\ pc = "setup"
    /\ t \in created
    /\ created' = created \ {t}
    /\ tasks' = tasks \cup {t}
    /\ IF t \in tasks
       THEN /\ panicked' = "task with same ID already in tasks"
            /\ task_queue' = task_queue
       ELSE LET r == Push(task_queue, t) IN
            /\ task_queue' = r.q
            /\ panicked' = IF r.ok THEN panicked ELSE "queue full"
    /\ ev' = Ev("spawn", t)
    /\ UNCHANGED <<NEXT_ID, issued, waker_cache, handles, fut, pc, cur, result, int_flag,
                   completions, done>>
    /\ UNCHANGED kbdVars
    /\ UNCHANGED bootVars
    /\ UNCHANGED <<heapVars, simpleVars, vgaVars, memVars, cpuVars>>

\* Executor::run is entered; it never returns, so no spawn follows it.
run ==
    /\ Running
    /\ pc = "setup"
    /\ pc' = "rrt"
    /\ ev' = Ev("run", NoTask)
    /\ UNCHANGED <<NEXT_ID, issued, created, tasks, task_queue, waker_cache, handles,
                   fut, cur, result, int_flag, panicked, completions, done>>
    /\ UNCHANGED kbdVars
    /\ UNCHANGED bootVars
    /\ UNCHANGED <<heapVars, simpleVars, vgaVars, memVars, cpuVars>>

\* ------------------------------------------------------------------ wake

\* A wake that drops the identifier when the queue is full.
wake_task_silent(id) ==
    /\ task_queue' = Push(task_queue, id).q
    /\ panicked' = panicked

\* TaskWaker::wake_task: push(self.task_id).expect("task_queue full").
wake_task(id) ==
    LET r == Push(task_queue, id) IN
    /\ task_queue' = r.q
    /\ panicked' = IF r.ok THEN panicked ELSE "task_queue full"

\* ------------------------------------------------------------------ run loop

\* A loop body that builds the Waker before it looks the task up.
run_ready_tasks_pop_waker_first ==
    /\ Running
    /\ pc = "rrt"
    /\ IF task_queue = <<>>
       THEN /\ pc' = "sleep"
            /\ ev' = Ev("drained", NoTask)
            /\ UNCHANGED <<task_queue, cur, waker_cache>>
       ELSE LET id == Head(task_queue) IN
            /\ task_queue' = Tail(task_queue)
            /\ waker_cache' = waker_cache \cup {id}
            /\ IF id \in tasks
               THEN /\ cur' = id
                    /\ pc' = "poll"
                    /\ ev' = Ev("poll", id)
               ELSE /\ pc' = "rrt"
                    /\ ev' = Ev("skip", id)
                    /\ UNCHANGED cur
    /\ UNCHANGED <<NEXT_ID, issued, created, tasks, handles, fut, result, int_flag, panicked,
                   completions, done>>
    /\ UNCHANGED kbdVars
    /\ UNCHANGED bootVars
    /\ UNCHANGED <<heapVars, simpleVars, vgaVars, memVars, cpuVars>>

\* run_ready_tasks, one evaluation of `while let Some(task_id) = task_queue.pop()`
\* up to the call of task.poll.
run_ready_tasks_pop ==
    /\ Running
    /\ pc = "rrt"
    /\ IF task_queue = <<>>
       THEN \* the loop ends, run calls sleep_if_idle
            /\ pc' = "sleep"
            /\ ev' = Ev("drained", NoTask)
            /\ UNCHANGED <<task_queue, cur, waker_cache>>
       ELSE LET id == Head(task_queue) IN
            /\ task_queue' = Tail(task_queue)
            /\ IF id \in tasks
               THEN /\ waker_cache' = waker_cache \cup {id}
                    /\ cur' = id
                    /\ pc' = "poll"
                    /\ ev' = Ev("poll", id)
               ELSE \* task no longer exists
                    /\ pc' = "rrt"
                    /\ ev' = Ev("skip", id)
                    /\ UNCHANGED <<cur, waker_cache>>
    /\ UNCHANGED <<NEXT_ID, issued, created, tasks, handles, fut, result, int_flag, panicked,
                   completions, done>>
    /\ UNCHANGED kbdVars
    /\ UNCHANGED bootVars
    /\ UNCHANGED <<heapVars, simpleVars, vgaVars, memVars, cpuVars>>

\* A Ready arm that keeps the cached Waker.
run_ready_tasks_match_keep_waker ==
    /\ Running
    /\ pc = "ret"
    /\ IF result = "Ready"
       THEN /\ tasks' = tasks \ {cur}
            /\ waker_cache' = waker_cache
       ELSE UNCHANGED <<tasks, waker_cache>>
    /\ pc' = "rrt"
    /\ cur' = NoTask
    /\ result' = "none"
    /\ ev' = Ev("match", cur)
    /\ UNCHANGED <<NEXT_ID, issued, created, task_queue, handles, fut, int_flag, panicked,
                   completions, done>>
    /\ UNCHANGED kbdVars
    /\ UNCHANGED bootVars
    /\ UNCHANGED <<heapVars, simpleVars, vgaVars, memVars, cpuVars>>

\* A Pending arm that puts the task back on the queue, as SimpleExecutor does.
run_ready_tasks_match_requeue ==
    /\ Running
    /\ pc = "ret"
    /\ IF result = "Ready"
       THEN /\ tasks' = tasks \ {cur}
            /\ waker_cache' = waker_cache \ {cur}
            /\ task_queue' = task_queue
       ELSE /\ task_queue' = Push(task_queue, cur).q
            /\ UNCHANGED <<tasks, waker_cache>>
    /\ pc' = "rrt"
    /\ cur' = NoTask
    /\ result' = "none"
    /\ ev' = Ev("match", cur)
    /\ UNCHANGED <<NEXT_ID, issued, created, handles, fut, int_flag, panicked, completions, done>>
    /\ UNCHANGED kbdVars
    /\ UNCHANGED bootVars
    /\ UNCHANGED <<heapVars, simpleVars, vgaVars, memVars, cpuVars>>

\* A Ready arm that leaves the task in the table.
run_ready_tasks_match_keep_task ==
    /\ Running
    /\ pc = "ret"
    /\ pc' = "rrt"
    /\ cur' = NoTask
    /\ result' = "none"
    /\ ev' = Ev("match", cur)
    /\ UNCHANGED <<NEXT_ID, issued, created, tasks, task_queue, waker_cache, handles,
                   fut, int_flag, panicked, completions, done>>
    /\ UNCHANGED kbdVars
    /\ UNCHANGED bootVars
    /\ UNCHANGED <<heapVars, simpleVars, vgaVars, memVars, cpuVars>>

\* run_ready_tasks, the `match task.poll(&mut context)` arms.
run_ready_tasks_match ==
    /\ Running
    /\ pc = "ret"
    /\ IF result = "Ready"
       THEN /\ tasks' = tasks \ {cur}
            /\ waker_cache' = waker_cache \ {cur}
       ELSE UNCHANGED <<tasks, waker_cache>>
    /\ pc' = "rrt"
    /\ cur' = NoTask
    /\ result' = "none"
    /\ ev' = Ev("match", cur)
    /\ UNCHANGED <<NEXT_ID, issued, created, task_queue, handles, fut, int_flag, panicked,
                   completions, done>>
    /\ UNCHANGED kbdVars
    /\ UNCHANGED bootVars
    /\ UNCHANGED <<heapVars, simpleVars, vgaVars, memVars, cpuVars>>

\* ------------------------------------------------------------------ sleep_if_idle

\* A sleep_if_idle that checks the queue with interrupts still enabled.
sleep_if_idle_disable_missing ==
    /\ Running
    /\ pc = "sleep"
    /\ int_flag' = int_flag
    /\ pc' = "check"
    /\ ev' = Ev("cli", NoTask)
    /\ UNCHANGED <<NEXT_ID, issued, created, tasks, task_queue, waker_cache, handles,
                   fut, cur, result, panicked, completions, done>>
    /\ UNCHANGED kbdVars
    /\ UNCHANGED bootVars
    /\ UNCHANGED <<heapVars, simpleVars, vgaVars, memVars, cpuVars>>

\* sleep_if_idle: interrupts::disable().
sleep_if_idle_disable ==
    /\ Running
    /\ pc = "sleep"
    /\ int_flag' = FALSE
    /\ pc' = "check"
    /\ ev' = Ev("cli", NoTask)
    /\ UNCHANGED <<NEXT_ID, issued, created, tasks, task_queue, waker_cache, handles,
                   fut, cur, result, panicked, completions, done>>
    /\ UNCHANGED kbdVars
    /\ UNCHANGED bootVars
    /\ UNCHANGED <<heapVars, simpleVars, vgaVars, memVars, cpuVars>>

\* A sleep_if_idle whose else arm returns without interrupts::enable().
sleep_if_idle_check_no_enable ==
    /\ Running
    /\ pc = "check"
    /\ IF task_queue = <<>>
       THEN /\ pc' = "halting"
            /\ ev' = Ev("empty", NoTask)
       ELSE /\ pc' = "rrt"
            /\ ev' = Ev("sti", NoTask)
    /\ UNCHANGED <<NEXT_ID, issued, created, tasks, task_queue, waker_cache, handles,
                   fut, cur, result, int_flag, panicked, completions, done>>
    /\ UNCHANGED kbdVars
    /\ UNCHANGED bootVars
    /\ UNCHANGED <<heapVars, simpleVars, vgaVars, memVars, cpuVars>>

\* sleep_if_idle: `if self.task_queue.is_empty()`; the else arm is
\* interrupts::enable() and the return to run.
sleep_if_idle_check ==
    /\ Running
    /\ pc = "check"
    /\ IF task_queue = <<>>
       THEN /\ pc' = "halting"
            /\ int_flag' = int_flag
            /\ ev' = Ev("empty", NoTask)
       ELSE /\ pc' = "rrt"
            /\ int_flag' = TRUE
            /\ ev' = Ev("sti", NoTask)
    /\ UNCHANGED <<NEXT_ID, issued, created, tasks, task_queue, waker_cache, handles,
                   fut, cur, result, panicked, completions, done>>
    /\ UNCHANGED kbdVars
    /\ UNCHANGED bootVars
    /\ UNCHANGED <<heapVars, simpleVars, vgaVars, memVars, cpuVars>>

\* sleep_if_idle: enable_and_hlt(), `sti; hlt`.  sti takes effect after the
\* following instruction, so no interrupt is delivered between the two.
sleep_if_idle_enable_and_hlt ==
    /\ Running
    /\ pc = "halting"
    /\ int_flag' = TRUE
    /\ pc' = "hlt"
    /\ ev' = Ev("hlt", NoTask)
    /\ UNCHANGED <<NEXT_ID, issued, created, tasks, task_queue, waker_cache, handles,
                   fut, cur, result, panicked, completions, done>>
    /\ UNCHANGED kbdVars
    /\ UNCHANGED bootVars
    /\ UNCHANGED <<heapVars, simpleVars, vgaVars, memVars, cpuVars>>

\* ------------------------------------------------------------------ futures

\* Task::poll of a future that is free to do anything a future may do with its
\* Context: clone the Waker out to a holder, invoke a Waker it can reach
\* (wake_by_ref on its own, or one held for another task), return either value.
Task_poll_free(res, handout, target) ==
    /\ Running
    /\ pc = "poll"
    /\ target \in handles \cup {cur, NoTask}
    /\ handles' = IF handout THEN handles \cup {cur} ELSE handles
    /\ IF target = NoTask
       THEN UNCHANGED <<task_queue, panicked>>
       ELSE wake_task(target)
    /\ result' = res
    /\ completions' = IF res = "Ready" THEN completions + 1 ELSE completions
    /\ done' = IF res = "Ready" THEN done \cup {cur} ELSE done
    /\ pc' = "ret"
    /\ ev' = IF target = NoTask THEN Ev("body", cur) ELSE Ev("wake", target)
    /\ UNCHANGED <<NEXT_ID, issued, created, tasks, waker_cache, fut, cur, int_flag>>
    /\ UNCHANGED kbdVars
    /\ UNCHANGED bootVars
    /\ UNCHANGED <<heapVars, simpleVars, vgaVars, memVars, cpuVars>>

\* Task::poll of the future of the executor scenario: the first poll hands its
\* Waker to a holder and returns Pending, the next poll returns Ready.  A future
\* polled after it returned Ready panics, as a completed async block does.
Task_poll_once ==
    /\ Running
    /\ pc = "poll"
    /\ \/ /\ fut[cur] = "start"
          /\ handles' = handles \cup {cur}
          /\ fut' = [fut EXCEPT ![cur] = "waiting"]
          /\ result' = "Pending"
          /\ UNCHANGED <<completions, done, panicked>>
       \/ /\ fut[cur] = "waiting"
          /\ fut' = [fut EXCEPT ![cur] = "done"]
          /\ result' = "Ready"
          /\ completions' = completions + 1
          /\ done' = done \cup {cur}
          /\ UNCHANGED <<handles, panicked>>
       \/ /\ fut[cur] = "done"
          /\ panicked' = "resumed after completion"
          /\ UNCHANGED <<handles, fut, result, completions, done>>
    /\ pc' = "ret"
    /\ ev' = Ev("body", cur)
    /\ UNCHANGED <<NEXT_ID, issued, created, tasks, task_queue, waker_cache, cur,
                   int_flag>>
    /\ UNCHANGED kbdVars
    /\ UNCHANGED bootVars
    /\ UNCHANGED <<heapVars, simpleVars, vgaVars, memVars, cpuVars>>

\* An interrupt handler (or any holder of a cloned Waker) invokes it: Wake::wake
\* consumes the handle, Wake::wake_by_ref keeps it.  The handler returns with
\* iret; a halted CPU resumes after the hlt.
Irq_wake(t, consume) ==
    /\ Running
    /\ int_flag
    /\ t \in handles
    /\ handles' = IF consume THEN handles \ {t} ELSE handles
    /\ wake_task(t)
    /\ pc' = IF pc = "hlt" THEN "rrt" ELSE pc
    /\ ev' = Ev("wake", t)
    /\ UNCHANGED <<NEXT_ID, issued, created, tasks, waker_cache, fut, cur, result, int_flag,
                   completions, done>>
    /\ UNCHANGED kbdVars
    /\ UNCHANGED bootVars
    /\ UNCHANGED <<heapVars, simpleVars, vgaVars, memVars, cpuVars>>

\* An interrupt whose handler wakes no task (the timer): it only ends a halt.
\* It performs no operation of the executor, so ev keeps the last one.
Irq_other ==
    /\ Running
    /\ int_flag
    /\ pc' = IF pc = "hlt" THEN "rrt" ELSE pc
    /\ ev' = ev
    /\ UNCHANGED <<NEXT_ID, issued, created, tasks, task_queue, waker_cache, handles,
                   fut, cur, result, int_flag, panicked, completions, done>>
    /\ UNCHANGED kbdVars
    /\ UNCHANGED bootVars
    /\ UNCHANGED <<heapVars, simpleVars, vgaVars, memVars, cpuVars>>

\* ------------------------------------------------------------------ text output

\* vga.rs:14, the width of the text buffer.
BUFFER_WIDTH == 80

\* b'\n'
Newline == 10

\* Longest panic message explored, in bytes before the newline of println!.
MaxMsgLen == 2

\* vga.rs:13, the height of the text buffer.
BUFFER_HEIGHT == 25

\* b' ', the character of a blank cell.
Blank == 32

\* buffer.chars, [[Volatile<ScreenChar>; BUFFER_WIDTH]; BUFFER_HEIGHT], with
\* every cell blank, and with the cells of each row holding a letter of the
\* row: what a Writer may find in the text buffer when it is created.
BlankScreen ==
    [row \in 0 .. (BUFFER_HEIGHT - 1) |-> [col \in 0 .. (BUFFER_WIDTH - 1) |-> Blank]]

RowScreen ==
    [row \in 0 .. (BUFFER_HEIGHT - 1) |-> [col \in 0 .. (BUFFER_WIDTH - 1) |-> 97 + row]]

\* The Writer of WRITER's initialiser: column_position 0 over the text buffer.
Writer_new(screen) == [column_position |-> 0, chars |-> screen, panic |-> FALSE]

\* No write_byte call yet.
NoWrite == [byte |-> -1, row |-> -1, col |-> -1]

\* Writer::clear_row(row): a blank character in every cell of the row.
clear_row(w, row) ==
    [w EXCEPT !.chars[row] = [col \in 0 .. (BUFFER_WIDTH - 1) |-> Blank]]

\* Writer::new_line: every row from 1 on is copied to the row above, in
\* ascending order, then the last row is cleared and the column reset.
new_line(w) ==
    LET moved == [w EXCEPT !.chars =
                     [row \in 0 .. (BUFFER_HEIGHT - 1) |->
                         IF row < BUFFER_HEIGHT - 1 THEN w.chars[row + 1]
                         ELSE w.chars[row]]]
    IN [clear_row(moved, BUFFER_HEIGHT - 1) EXCEPT !.column_position = 0]

\* A write_byte without the check for a full line.
Writer_write_byte_no_wrap(w, byte) ==
    IF byte = Newline THEN [w |-> new_line(w), row |-> -1, col |-> -1]
    ELSE LET row == BUFFER_HEIGHT - 1
             col == w.column_position
         IN IF row \in DOMAIN w.chars /\ col \in DOMAIN w.chars[row]
            THEN [w |-> [w EXCEPT !.chars[row][col] = byte,
                                  !.column_position = col + 1],
                  row |-> row, col |-> col]
            ELSE [w |-> [w EXCEPT !.panic = TRUE], row |-> row, col |-> col]

\* Writer::write_byte(byte) on the whole Writer: the Writer it leaves and the
\* cell it indexed, if any.  Indexing chars outside the array panics.
Writer_write_byte(w, byte) ==
    IF byte = Newline THEN [w |-> new_line(w), row |-> -1, col |-> -1]
    ELSE LET w1 == IF w.column_position >= BUFFER_WIDTH THEN new_line(w) ELSE w
             row == BUFFER_HEIGHT - 1
             col == w1.column_position
         IN IF row \in DOMAIN w1.chars /\ col \in DOMAIN w1.chars[row]
            THEN [w |-> [w1 EXCEPT !.chars[row][col] = byte,
                                   !.column_position = col + 1],
                  row |-> row, col |-> col]
            ELSE [w |-> [w1 EXCEPT !.panic = TRUE], row |-> row, col |-> col]

\* The character the n-th explored call writes when it writes one: the letters
\* A to Z in turn.
CharOf(n) == 65 + (n % 26)

\* One call of write_byte on the Writer, with a character or the newline byte.
Writer_write(byte) ==
    /\ Running
    /\ ~writer.panic
    /\ vga_writes < MaxWrites
    /\ byte = Newline => vga_newlines < MaxNewlines
    /\ LET res == Writer_write_byte(writer, byte)
       IN /\ writer' = res.w
          /\ vga_last' = [byte |-> byte, row |-> res.row, col |-> res.col]
          /\ panicked' = IF res.w.panic THEN "index out of bounds" ELSE panicked
    /\ vga_writes' = vga_writes + 1
    /\ vga_newlines' = vga_newlines + (IF byte = Newline THEN 1 ELSE 0)
    /\ UNCHANGED <<NEXT_ID, issued, created, tasks, task_queue, waker_cache, handles,
                   fut, pc, cur, result, int_flag, completions, done, ev>>
    /\ UNCHANGED kbdVars
    /\ UNCHANGED bootVars
    /\ UNCHANGED <<heapVars, simpleVars, memVars, cpuVars>>


\* The bytes a panic message is made of in the explored runs: a letter and a
\* line break.
MsgBytes == {65, Newline}

\* The bytes of a formatted panic message: every text of 1 .. MaxMsgLen bytes.
PanicTexts ==
    UNION {[1 .. n -> MsgBytes] : n \in 1 .. MaxMsgLen}

\* "Hello world!\n"
Hello == <<72, 101, 108, 108, 111, 32, 119, 111, 114, 108, 100, 33, Newline>>

\* "." as printed by the timer handler.
Dot == <<46>>

\* The text a test prints to the serial port: "[ok]\n".
OkText == <<91, 111, 107, 93, Newline>>

\* "a", the character pc_keyboard decodes from the make code 30 under the US
\* layout, as the keyboard handler prints it.
KeyText == <<97>>

\* Writer::write_byte and Writer::new_line, on column_position.
write_byte(col, byte) ==
    IF byte = Newline THEN 0
    ELSE (IF col >= BUFFER_WIDTH THEN 0 ELSE col) + 1

\* Entering a print macro: _print starts at its first instruction and the
\* caller continues at ret once it has returned.
CallPrint(kind, bytes, ret) ==
    /\ pr_kind' = kind
    /\ pr_step' = IF kind = "vga" THEN "lock" ELSE "cli"
    /\ pr_bytes' = bytes
    /\ bpc' = ret

\* The boot sequence executes its next statement: no handler spins and no
\* _print is in progress.
AtStatement(at) ==
    /\ spin = "none"
    /\ pr_kind = "none"
    /\ bpc = at

execVars == <<NEXT_ID, issued, created, tasks, task_queue, waker_cache, handles, fut,
              pc, cur, result, completions, done, ev, kbdVars>>

\* vga::_print: WRITER.lock().  It is entered with the interrupt flag as the
\* caller has it.
vga_print_lock ==
    /\ spin = "none"
    /\ pr_kind = "vga"
    /\ pr_step = "lock"
    /\ WRITER = "free"
    /\ WRITER' = "main"
    /\ pr_step' = "write"
    /\ UNCHANGED <<entry, bpc, pr_kind, pr_bytes, saved_if, exc_if, SERIAL1, PICS,
                   column_position, spin, int_flag, panicked, execVars, hvec, hlog>>
    /\ UNCHANGED <<heapVars, simpleVars, vgaVars, memVars, cpuVars>>

\* vga::_print: write_fmt, one write_byte at a time, under the lock.
vga_print_write ==
    /\ spin = "none"
    /\ pr_kind = "vga"
    /\ pr_step = "write"
    /\ pr_bytes # <<>>
    /\ column_position' = write_byte(column_position, Head(pr_bytes))
    /\ pr_bytes' = Tail(pr_bytes)
    /\ UNCHANGED <<entry, bpc, pr_kind, pr_step, saved_if, exc_if, WRITER, SERIAL1,
                   PICS, spin, int_flag, panicked, execVars, hvec, hlog>>
    /\ UNCHANGED <<heapVars, simpleVars, vgaVars, memVars, cpuVars>>

\* vga::_print: the MutexGuard is dropped at the end of the statement.
vga_print_unlock ==
    /\ spin = "none"
    /\ pr_kind = "vga"
    /\ pr_step = "write"
    /\ pr_bytes = <<>>
    /\ WRITER' = "free"
    /\ pr_kind' = "none"
    /\ pr_step' = "none"
    /\ UNCHANGED <<entry, bpc, pr_bytes, saved_if, exc_if, SERIAL1, PICS,
                   column_position, spin, int_flag, panicked, execVars, hvec, hlog>>
    /\ UNCHANGED <<heapVars, simpleVars, vgaVars, memVars, cpuVars>>

\* serial::_print: without_interrupts saves the flag and disables interrupts.
serial_print_disable ==
    /\ spin = "none"
    /\ pr_kind = "serial"
    /\ pr_step = "cli"
    /\ saved_if' = int_flag
    /\ int_flag' = FALSE
    /\ pr_step' = "lock"
    /\ UNCHANGED <<entry, bpc, pr_kind, pr_bytes, exc_if, WRITER, SERIAL1, PICS,
                   column_position, spin, panicked, execVars, hvec, hlog>>
    /\ UNCHANGED <<heapVars, simpleVars, vgaVars, memVars, cpuVars>>

\* serial::_print: SERIAL1.lock().
serial_print_lock ==
    /\ spin = "none"
    /\ pr_kind = "serial"
    /\ pr_step = "lock"
    /\ SERIAL1 = "free"
    /\ SERIAL1' = "main"
    /\ pr_step' = "write"
    /\ UNCHANGED <<entry, bpc, pr_kind, pr_bytes, saved_if, exc_if, WRITER, PICS,
                   column_position, spin, int_flag, panicked, execVars, hvec, hlog>>
    /\ UNCHANGED <<heapVars, simpleVars, vgaVars, memVars, cpuVars>>

\* serial::_print: write_fmt sends the bytes to the port, under the lock.
serial_print_write ==
    /\ spin = "none"
    /\ pr_kind = "serial"
    /\ pr_step = "write"
    /\ pr_bytes # <<>>
    /\ pr_bytes' = Tail(pr_bytes)
    /\ UNCHANGED <<entry, bpc, pr_kind, pr_step, saved_if, exc_if, WRITER, SERIAL1,
                   PICS, column_position, spin, int_flag, panicked, execVars, hvec, hlog>>
    /\ UNCHANGED <<heapVars, simpleVars, vgaVars, memVars, cpuVars>>

\* serial::_print: the MutexGuard is dropped at the end of the closure.
serial_print_unlock ==
    /\ spin = "none"
    /\ pr_kind = "serial"
    /\ pr_step = "write"
    /\ pr_bytes = <<>>
    /\ SERIAL1' = "free"
    /\ pr_step' = "sti"
    /\ UNCHANGED <<entry, bpc, pr_kind, pr_bytes, saved_if, exc_if, WRITER, PICS,
                   column_position, spin, int_flag, panicked, execVars, hvec, hlog>>
    /\ UNCHANGED <<heapVars, simpleVars, vgaVars, memVars, cpuVars>>

\* serial::_print: without_interrupts enables interrupts again if they were
\* enabled when it was entered.
serial_print_restore ==
    /\ spin = "none"
    /\ pr_kind = "serial"
    /\ pr_step = "sti"
    /\ int_flag' = saved_if
    /\ pr_kind' = "none"
    /\ pr_step' = "none"
    /\ UNCHANGED <<entry, bpc, pr_bytes, saved_if, exc_if, WRITER, SERIAL1, PICS,
                   column_position, spin, panicked, execVars, hvec, hlog>>
    /\ UNCHANGED <<heapVars, simpleVars, vgaVars, memVars, cpuVars>>

\* An interrupt handler's `LOCK.lock()` with the pre-empted code holding LOCK:
\* the handler spins, with interrupts disabled, and the holder never runs again.
SpinOn(lock) ==
    /\ spin' = lock
    /\ int_flag' = FALSE

\* ------------------------------------------------------------------ keyboard

\* A push that puts the byte at the head of the queue.
PushScancode_at_head(q, b) ==
    IF Len(q) < ScancodeCap THEN [ok |-> TRUE, q |-> <<b>> \o q]
    ELSE [ok |-> FALSE, q |-> q]

\* crossbeam ArrayQueue::push on the scancode queue: Err(value) when full.
PushScancode(q, b) ==
    IF Len(q) < ScancodeCap THEN [ok |-> TRUE, q |-> Append(q, b)]
    ELSE [ok |-> FALSE, q |-> q]

\* pc_keyboard add_byte / process_keyevent under HandleControl::Ignore, as far
\* as print_keypresses depends on it: a make code (bit 7 clear) decodes to a
\* key, a break code to none.
IsMake(b) == b < 128

\* The make code of F1 in scancode set 1, a key the US layout maps to no
\* character.
F1Make == 59

\* The scancodes delivered to print_keypresses in the explored runs: those of
\* the key A and the make code of F1.
KbdScancodes == Scancodes \cup {F1Make}

\* keyboard.add_byte followed by keyboard.process_keyevent under
\* HandleControl::Ignore: a break code gives no key, the make code of a key
\* with a character gives DecodedKey::Unicode, that of another key gives
\* DecodedKey::RawKey.
DecodedKey(b) ==
    IF ~IsMake(b) THEN "None"
    ELSE IF b = F1Make THEN "RawKey"
    ELSE "Unicode"

\* What the match on the decoded key prints: print!("{}", character) for
\* Unicode, print!("{:?}", key) for RawKey, here "F1".
DecodedText(b) ==
    IF DecodedKey(b) = "RawKey" THEN <<70, 49>> ELSE KeyText

\* A ScancodeStream::new that installs a fresh queue on every call.
print_keypresses_start_reinit ==
    /\ Running
    /\ pc = "poll"
    /\ fut[cur] = "start"
    /\ scq_init' = TRUE
    /\ SCANCODE_QUEUE' = <<>>
    /\ fut' = [fut EXCEPT ![cur] = "await"]
    /\ kstep' = "pop1"
    /\ panicked' = panicked
    /\ ev' = Ev("stream", cur)
    /\ UNCHANGED <<NEXT_ID, issued, created, tasks, task_queue, waker_cache, handles,
                   pc, cur, result, int_flag, completions, done, WAKER, scancode, keys, accepted, delivered>>
    /\ UNCHANGED bootVars
    /\ UNCHANGED <<heapVars, simpleVars, vgaVars, memVars, cpuVars>>

\* print_keypresses, from its first poll to the first `scancodes.next().await`:
\* ScancodeStream::new() initialises the OnceCell or panics if it already is.
print_keypresses_start ==
    /\ Running
    /\ pc = "poll"
    /\ fut[cur] = "start"
    /\ IF scq_init
       THEN /\ panicked' = "ScancodeStream::new should only be called once"
            /\ UNCHANGED <<scq_init, SCANCODE_QUEUE, fut, kstep>>
       ELSE /\ scq_init' = TRUE
            /\ SCANCODE_QUEUE' = <<>>
            /\ fut' = [fut EXCEPT ![cur] = "await"]
            /\ kstep' = "pop1"
            /\ panicked' = panicked
    /\ ev' = Ev("stream", cur)
    /\ UNCHANGED <<NEXT_ID, issued, created, tasks, task_queue, waker_cache, handles,
                   pc, cur, result, int_flag, completions, done, WAKER, scancode, keys, accepted, delivered>>
    /\ UNCHANGED bootVars
    /\ UNCHANGED <<heapVars, simpleVars, vgaVars, memVars, cpuVars>>

\* poll_next, the fast path: `if let Some(scancode) = queue.pop()`.  A poll of a
\* future suspended in next().await enters here.
poll_next_pop1 ==
    /\ Running
    /\ pc = "poll"
    /\ pr_kind = "none"
    /\ fut[cur] = "await"
    /\ kstep \in {"idle", "pop1"}
    /\ IF SCANCODE_QUEUE # <<>>
       THEN /\ scancode' = Head(SCANCODE_QUEUE)
            /\ SCANCODE_QUEUE' = Tail(SCANCODE_QUEUE)
            /\ kstep' = "got"
            /\ delivered' = Append(delivered, Head(SCANCODE_QUEUE))
       ELSE /\ kstep' = "register"
            /\ UNCHANGED <<scancode, SCANCODE_QUEUE, delivered>>
    /\ ev' = Ev("pop1", cur)
    /\ UNCHANGED <<NEXT_ID, issued, created, tasks, task_queue, waker_cache, handles,
                   fut, pc, cur, result, int_flag, panicked, completions, done,
                   scq_init, WAKER, keys, accepted>>
    /\ UNCHANGED bootVars
    /\ UNCHANGED <<heapVars, simpleVars, vgaVars, memVars, cpuVars>>

\* poll_next: WAKER.register(cx.waker()).
poll_next_register ==
    /\ Running
    /\ pc = "poll"
    /\ kstep = "register"
    /\ WAKER' = cur
    /\ kstep' = "pop2"
    /\ ev' = Ev("register", cur)
    /\ UNCHANGED <<NEXT_ID, issued, created, tasks, task_queue, waker_cache, handles,
                   fut, pc, cur, result, int_flag, panicked, completions, done,
                   scq_init, SCANCODE_QUEUE, scancode, keys, accepted, delivered>>
    /\ UNCHANGED bootVars
    /\ UNCHANGED <<heapVars, simpleVars, vgaVars, memVars, cpuVars>>

\* A poll_next that returns Pending right after registering the Waker.
poll_next_pop2_skipped ==
    /\ Running
    /\ pc = "poll"
    /\ kstep = "pop2"
    /\ result' = "Pending"
    /\ pc' = "ret"
    /\ kstep' = "idle"
    /\ ev' = Ev("pop2", cur)
    /\ UNCHANGED <<NEXT_ID, issued, created, tasks, task_queue, waker_cache, handles,
                   fut, cur, int_flag, panicked, completions, done,
                   scq_init, SCANCODE_QUEUE, scancode, WAKER, keys, accepted, delivered>>
    /\ UNCHANGED bootVars
    /\ UNCHANGED <<heapVars, simpleVars, vgaVars, memVars, cpuVars>>

\* A poll_next whose second pop reports the end of the stream on an empty
\* queue: the while-let of print_keypresses ends and the Task returns Ready.
poll_next_pop2_end_of_stream ==
    /\ Running
    /\ pc = "poll"
    /\ kstep = "pop2"
    /\ IF SCANCODE_QUEUE # <<>>
       THEN /\ scancode' = Head(SCANCODE_QUEUE)
            /\ SCANCODE_QUEUE' = Tail(SCANCODE_QUEUE)
            /\ kstep' = "take"
            /\ UNCHANGED <<result, pc>>
       ELSE /\ result' = "Ready"
            /\ pc' = "ret"
            /\ kstep' = "idle"
            /\ UNCHANGED <<scancode, SCANCODE_QUEUE>>
    /\ ev' = Ev("pop2", cur)
    /\ UNCHANGED <<NEXT_ID, issued, created, tasks, task_queue, waker_cache, handles,
                   fut, cur, int_flag, panicked, completions, done,
                   scq_init, WAKER, keys, accepted, delivered>>
    /\ UNCHANGED bootVars
    /\ UNCHANGED <<heapVars, simpleVars, vgaVars, memVars, cpuVars>>

\* poll_next: the second `queue.pop()`; None returns Poll::Pending.
poll_next_pop2 ==
    /\ Running
    /\ pc = "poll"
    /\ kstep = "pop2"
    /\ IF SCANCODE_QUEUE # <<>>
       THEN /\ scancode' = Head(SCANCODE_QUEUE)
            /\ SCANCODE_QUEUE' = Tail(SCANCODE_QUEUE)
            /\ kstep' = "take"
            /\ UNCHANGED <<result, pc>>
       ELSE /\ result' = "Pending"
            /\ pc' = "ret"
            /\ kstep' = "idle"
            /\ UNCHANGED <<scancode, SCANCODE_QUEUE>>
    /\ ev' = Ev("pop2", cur)
    /\ UNCHANGED <<NEXT_ID, issued, created, tasks, task_queue, waker_cache, handles,
                   fut, cur, int_flag, panicked, completions, done,
                   scq_init, WAKER, keys, accepted, delivered>>
    /\ UNCHANGED bootVars
    /\ UNCHANGED <<heapVars, simpleVars, vgaVars, memVars, cpuVars>>

\* poll_next: WAKER.take() before returning Ready(Some(scancode)).
poll_next_take ==
    /\ Running
    /\ pc = "poll"
    /\ kstep = "take"
    /\ WAKER' = NoTask
    /\ kstep' = "got"
    /\ delivered' = Append(delivered, scancode)
    /\ ev' = Ev("take", cur)
    /\ UNCHANGED <<NEXT_ID, issued, created, tasks, task_queue, waker_cache, handles,
                   fut, pc, cur, result, int_flag, panicked, completions, done,
                   scq_init, SCANCODE_QUEUE, scancode, keys, accepted>>
    /\ UNCHANGED bootVars
    /\ UNCHANGED <<heapVars, simpleVars, vgaVars, memVars, cpuVars>>

\* print_keypresses, the body of the while loop: decode the byte, print the key
\* if there is one, and call next().await again.  The text-mode writer that
\* print! goes through is modelled with the boot sequence, not here.
print_keypresses_body ==
    /\ Running
    /\ pc = "poll"
    /\ kstep = "got"
    /\ pr_kind = "none"
    /\ kstep' = "pop1"
    /\ IF DecodedKey(scancode) # "None"
       THEN CallPrint("vga", DecodedText(scancode), bpc)
       ELSE UNCHANGED <<pr_kind, pr_step, pr_bytes, bpc>>
    /\ ev' = Ev(IF DecodedKey(scancode) # "None" THEN "print" ELSE "noprint", cur)
    /\ UNCHANGED <<NEXT_ID, issued, created, tasks, task_queue, waker_cache, handles,
                   fut, pc, cur, result, int_flag, panicked, completions, done,
                   scq_init, SCANCODE_QUEUE, WAKER, scancode, keys, accepted, delivered>>
    /\ UNCHANGED <<entry, saved_if, exc_if, WRITER, SERIAL1, PICS, column_position,
                   spin, hvec, hlog>>
    /\ UNCHANGED <<heapVars, simpleVars, vgaVars, memVars, cpuVars>>

\* The print! of print_keypresses, a vga::_print in the main context that runs
\* to its end before the next next().await.
print_keypresses_print ==
    /\ Running
    /\ pc = "poll"
    /\ \/ vga_print_lock
       \/ vga_print_write
       \/ vga_print_unlock

\* add_scancode(b): push on the initialised queue and WAKER.wake(), which takes
\* the registered Waker, if any, and invokes it; a full or uninitialised queue
\* drops the byte with a println! warning, which goes through vga::_print and
\* leaves the Writer after the newline that ends it.
add_scancode(b) ==
    IF scq_init /\ PushScancode(SCANCODE_QUEUE, b).ok
    THEN /\ SCANCODE_QUEUE' = PushScancode(SCANCODE_QUEUE, b).q
         /\ accepted' = Append(accepted, b)
         /\ WAKER' = NoTask
         /\ IF WAKER # NoTask
            THEN /\ wake_task(WAKER)
                 /\ ev' = Ev("wake", WAKER)
            ELSE /\ UNCHANGED <<task_queue, panicked>>
                 /\ ev' = Ev("add", NoTask)
         /\ UNCHANGED <<column_position, spin, int_flag>>
    ELSE /\ UNCHANGED <<SCANCODE_QUEUE, WAKER, task_queue, panicked, accepted>>
         /\ ev' = Ev("drop", NoTask)
         /\ IF WRITER = "free"
            THEN /\ column_position' = write_byte(column_position, Newline)
                 /\ UNCHANGED <<spin, int_flag>>
            ELSE /\ SpinOn("WRITER")
                 /\ UNCHANGED column_position

\* add_scancode called from the keyboard interrupt, between two steps of the
\* main context; the iret resumes a halted CPU after its hlt.
Irq_add_scancode(b) ==
    /\ Running
    /\ int_flag
    /\ keys < MaxKeys
    /\ keys' = keys + 1
    /\ add_scancode(b)
    /\ pc' = IF pc = "hlt" THEN "rrt" ELSE pc
    /\ UNCHANGED <<NEXT_ID, issued, created, tasks, waker_cache, handles, fut, cur,
                   result, completions, done, scq_init, kstep, scancode,
                   delivered>>
    /\ UNCHANGED <<entry, bpc, pr_kind, pr_step, pr_bytes, saved_if, exc_if, WRITER,
                   SERIAL1, PICS, hvec, hlog>>
    /\ UNCHANGED <<heapVars, simpleVars, vgaVars, memVars, cpuVars>>

\* ------------------------------------------------------------------ SimpleExecutor

\* The Tasks given to the SimpleExecutor.
SimpleIds == 0 .. (MaxSimpleTasks - 1)

\* A future that returns Pending at every poll.
NeverReady == -1

\* SimpleExecutor::spawn(task): task_queue.push_back(task).  The Task is moved
\* in, so it is spawned once; run takes &mut self, so no spawn falls inside it.
SimpleExecutor_spawn(t) ==
    /\ Running
    /\ simple_pc = "setup"
    /\ t \notin {spawned[i] : i \in 1 .. Len(spawned)}
    /\ simple_task_queue' = Append(simple_task_queue, t)
    /\ spawned' = Append(spawned, t)
    /\ UNCHANGED <<simple_pc, task, remaining, polled, finished>>
    /\ UNCHANGED <<NEXT_ID, issued, created, tasks, task_queue, waker_cache, handles,
                   fut, pc, cur, result, int_flag, panicked, completions, done, ev>>
    /\ UNCHANGED kbdVars
    /\ UNCHANGED bootVars
    /\ UNCHANGED <<heapVars, vgaVars, memVars, cpuVars>>

\* SimpleExecutor::run is called.
SimpleExecutor_run ==
    /\ Running
    /\ simple_pc = "setup"
    /\ simple_pc' = "run"
    /\ UNCHANGED <<simple_task_queue, task, remaining, spawned, polled, finished>>
    /\ UNCHANGED <<NEXT_ID, issued, created, tasks, task_queue, waker_cache, handles,
                   fut, pc, cur, result, int_flag, panicked, completions, done, ev>>
    /\ UNCHANGED kbdVars
    /\ UNCHANGED bootVars
    /\ UNCHANGED <<heapVars, vgaVars, memVars, cpuVars>>

\* A run that takes the Task at the back of the queue.
SimpleExecutor_run_pop_back ==
    /\ Running
    /\ simple_pc = "run"
    /\ IF simple_task_queue = <<>>
       THEN /\ simple_pc' = "returned"
            /\ UNCHANGED <<simple_task_queue, task, polled>>
       ELSE /\ Len(polled) < MaxSimpleTasks * (MaxPending + 2)
            /\ task' = simple_task_queue[Len(simple_task_queue)]
            /\ simple_task_queue' =
                  SubSeq(simple_task_queue, 1, Len(simple_task_queue) - 1)
            /\ polled' = Append(polled, simple_task_queue[Len(simple_task_queue)])
            /\ simple_pc' = "poll"
    /\ UNCHANGED <<remaining, spawned, finished>>
    /\ UNCHANGED <<NEXT_ID, issued, created, tasks, task_queue, waker_cache, handles,
                   fut, pc, cur, result, int_flag, panicked, completions, done, ev>>
    /\ UNCHANGED kbdVars
    /\ UNCHANGED bootVars
    /\ UNCHANGED <<heapVars, vgaVars, memVars, cpuVars>>

\* run, `while let Some(mut task) = self.task_queue.pop_front()` up to the call
\* of task.poll: None ends the loop and run returns.  The explored polls are
\* capped, which only a run with a future that is never Ready reaches.
SimpleExecutor_run_pop ==
    /\ Running
    /\ simple_pc = "run"
    /\ IF simple_task_queue = <<>>
       THEN /\ simple_pc' = "returned"
            /\ UNCHANGED <<simple_task_queue, task, polled>>
       ELSE /\ Len(polled) < MaxSimpleTasks * (MaxPending + 2)
            /\ task' = Head(simple_task_queue)
            /\ simple_task_queue' = Tail(simple_task_queue)
            /\ polled' = Append(polled, Head(simple_task_queue))
            /\ simple_pc' = "poll"
    /\ UNCHANGED <<remaining, spawned, finished>>
    /\ UNCHANGED <<NEXT_ID, issued, created, tasks, task_queue, waker_cache, handles,
                   fut, pc, cur, result, int_flag, panicked, completions, done, ev>>
    /\ UNCHANGED kbdVars
    /\ UNCHANGED bootVars
    /\ UNCHANGED <<heapVars, vgaVars, memVars, cpuVars>>

\* run, `match task.poll(&mut context)`: Ready drops the Task, Pending pushes it
\* on the back of the queue.
SimpleExecutor_run_match ==
    /\ Running
    /\ simple_pc = "poll"
    /\ IF remaining[task] = 0
       THEN /\ finished' = finished \cup {task}
            /\ UNCHANGED <<simple_task_queue, remaining>>
       ELSE /\ simple_task_queue' = Append(simple_task_queue, task)
            /\ remaining' = [remaining EXCEPT ![task] =
                                IF @ = NeverReady THEN NeverReady ELSE @ - 1]
            /\ UNCHANGED finished
    /\ simple_pc' = "run"
    /\ task' = NoTask
    /\ UNCHANGED <<spawned, polled>>
    /\ UNCHANGED <<NEXT_ID, issued, created, tasks, task_queue, waker_cache, handles,
                   fut, pc, cur, result, int_flag, panicked, completions, done, ev>>
    /\ UNCHANGED kbdVars
    /\ UNCHANGED bootVars
    /\ UNCHANGED <<heapVars, vgaVars, memVars, cpuVars>>

\* ------------------------------------------------------------------ CPU tables

\* interrupts.rs:14
PIC_1_OFFSET == 32

\* interrupts.rs:17
PIC_2_OFFSET == PIC_1_OFFSET + 8

\* The vector offsets the firmware leaves the two PICs with.
BootPicOffsets == <<8, 112>>

\* InterruptIndex::Timer = PIC_1_OFFSET
InterruptIndex_Timer == PIC_1_OFFSET

\* InterruptIndex::Keyboard, the enum variant after Timer
InterruptIndex_Keyboard == InterruptIndex_Timer + 1

\* The vector of idt.breakpoint.
Breakpoint == 3

\* The vector of idt.double_fault.
DoubleFault == 8

\* The vector of idt.page_fault.
PageFault == 14

\* gdt.rs:14
DOUBLE_FAULT_IST_INDEX == 0

\* Deepest recursion explored before the boot stack is used up.
MaxStackFrames == 2

\* An entry of InterruptDescriptorTable::new(): not present.
MissingGate == [present |-> FALSE, ist |-> 0, handler |-> "none"]

\* set_handler_fn(handler): a present interrupt gate that stays on the
\* interrupted stack.
set_handler_fn(handler) == [present |-> TRUE, ist |-> 0, handler |-> handler]

\* set_stack_index(index): the gate's IST field holds index + 1, 0 being the
\* value for no stack switch.
set_stack_index(gate, index) == [gate EXCEPT !.ist = index + 1]

\* Interrupt tables whose double fault gates have no stack index.
IdtEntry_no_stack_index(idt, vector) ==
    IF idt = "IDT"
    THEN CASE vector = Breakpoint -> set_handler_fn("breakpoint_handler")
           [] vector = DoubleFault -> set_handler_fn("double_fault_handler")
           [] vector = InterruptIndex_Timer -> set_handler_fn("timer_interrupt_handler")
           [] vector = InterruptIndex_Keyboard ->
                  set_handler_fn("keyboard_interrupt_handler")
           [] vector = PageFault -> set_handler_fn("page_fault_handler")
           [] OTHER -> MissingGate
    ELSE IF idt = "TEST_IDT" /\ vector = DoubleFault
    THEN set_handler_fn("test_double_fault_handler")
    ELSE MissingGate

\* The gate of a vector in the static IDT of interrupts.rs and in the TEST_IDT
\* of tests/stack_overflow.rs; nothing is loaded before either.
IdtEntry(idt, vector) ==
    IF idt = "IDT"
    THEN CASE vector = Breakpoint -> set_handler_fn("breakpoint_handler")
           [] vector = DoubleFault ->
                  set_stack_index(set_handler_fn("double_fault_handler"),
                                  DOUBLE_FAULT_IST_INDEX)
           [] vector = InterruptIndex_Timer -> set_handler_fn("timer_interrupt_handler")
           [] vector = InterruptIndex_Keyboard ->
                  set_handler_fn("keyboard_interrupt_handler")
           [] vector = PageFault -> set_handler_fn("page_fault_handler")
           [] OTHER -> MissingGate
    ELSE IF idt = "TEST_IDT" /\ vector = DoubleFault
    THEN set_stack_index(set_handler_fn("test_double_fault_handler"),
                         DOUBLE_FAULT_IST_INDEX)
    ELSE MissingGate

\* TSS.interrupt_stack_table[i]: the end of the static STACK for
\* DOUBLE_FAULT_IST_INDEX, zero for the other entries.
TSS_interrupt_stack_table(i) ==
    IF i = DOUBLE_FAULT_IST_INDEX THEN "ist0" ELSE "unmapped"

\* The stack the CPU pushes the exception frame of a gate on, when the stack
\* pointer is in sp: the interrupted stack, or the entry of the interrupt stack
\* table of the loaded task-state segment that the gate names.
GateStack(gate, sp) ==
    IF gate.ist = 0 THEN sp
    ELSE IF task_register = "TSS" THEN TSS_interrupt_stack_table(gate.ist - 1)
    ELSE "unmapped"

\* The CPU can push an exception frame on the stack s.
Writable(s) == s \in {"boot", "ist0"}

\* No address.
NoAddr == [idx |-> <<>>, off |-> 0]

\* No exception delivered so far.
NoExc ==
    [vector |-> 0, handler |-> "none", stack |-> "boot", cause |-> "none",
     addr |-> NoAddr, code |-> "none", ret |-> "none"]

\* The CPU delivers the exception `vector` raised with the stack pointer in
\* sp: it enters the gate's handler on the gate's stack; when the gate is
\* missing or its frame cannot be pushed, the second fault is a double fault,
\* and a fault while the double fault is delivered resets the machine.  ret is
\* the position the pushed frame returns to.
Deliver(vector, sp, cause, addr, code, ret) ==
    LET g == IdtEntry(idtr, vector)
        df == IdtEntry(idtr, DoubleFault)
        e == [vector |-> vector, handler |-> g.handler, stack |-> GateStack(g, sp),
              cause |-> cause, addr |-> addr, code |-> code, ret |-> ret]
    IN IF g.present /\ Writable(GateStack(g, sp)) THEN e
       ELSE IF vector # DoubleFault /\ df.present /\ Writable(GateStack(df, sp))
       THEN [e EXCEPT !.vector = DoubleFault, !.handler = df.handler,
                      !.stack = GateStack(df, sp)]
       ELSE [e EXCEPT !.vector = DoubleFault, !.handler = "reset", !.stack = sp]

\* Entry into an exception handler through an interrupt gate: the flags are
\* pushed, the interrupt flag is cleared and the handler starts on its stack.
Enter(e) ==
    /\ exc' = e
    /\ rsp' = e.stack
    /\ exc_if' = int_flag
    /\ int_flag' = FALSE
    /\ bpc' = e.handler

\* One line of an exception handler's report.
Report(handler, what, value) == [handler |-> handler, what |-> what, value |-> value]

\* The CPU and the PICs as the bootloader hands them over.
CpuStatics ==
    /\ gdtr = "boot"
    /\ task_register = "none"
    /\ idtr = "none"
    /\ pic_offsets = BootPicOffsets
    /\ init_log = <<>>
    /\ rsp = "boot"
    /\ exc = NoExc
    /\ reported = <<>>

\* ------------------------------------------------------------------ boot sequence

\* kernel_main: println!("Hello world!"); test_kernel_main starts with init().
entry_point ==
    /\ AtStatement("start")
    /\ entry \in {"kernel_main", "test_kernel_main"}
    /\ IF entry = "kernel_main"
       THEN CallPrint("vga", Hello, "init")
       ELSE /\ bpc' = "init"
            /\ UNCHANGED <<pr_kind, pr_step, pr_bytes>>
    /\ UNCHANGED <<entry, saved_if, exc_if, WRITER, SERIAL1, PICS, column_position,
                   spin, int_flag, panicked, execVars, hvec, hlog>>
    /\ UNCHANGED <<heapVars, simpleVars, vgaVars, memVars, cpuVars>>

\* A gdt::init that also enables interrupts.
gdt_init_enabling_interrupts ==
    /\ \E at \in {"init", "so_gdt"} :
          /\ AtStatement(at)
          /\ bpc' = IF at = "init" THEN "init_idt" ELSE "init_test_idt"
    /\ gdtr' = "GDT"
    /\ task_register' = "TSS"
    /\ init_log' = init_log \o <<"GDT.load", "load_tss">>
    /\ int_flag' = TRUE
    /\ UNCHANGED <<idtr, pic_offsets, rsp, frames_left, exc, reported>>
    /\ UNCHANGED <<entry, pr_kind, pr_step, pr_bytes, saved_if, exc_if, WRITER,
                   SERIAL1, PICS, column_position, spin, panicked, execVars, hvec, hlog>>
    /\ UNCHANGED <<heapVars, simpleVars, vgaVars, memVars>>

\* gdt::init(), called by init() and by _start of tests/stack_overflow.rs:
\* GDT.0.load(), CS::set_reg(code_selector), load_tss(tss_selector).
gdt_init ==
    /\ \E at \in {"init", "so_gdt"} :
          /\ AtStatement(at)
          /\ bpc' = IF at = "init" THEN "init_idt" ELSE "init_test_idt"
    /\ gdtr' = "GDT"
    /\ task_register' = "TSS"
    /\ init_log' = init_log \o <<"GDT.load", "load_tss">>
    /\ int_flag' = int_flag
    /\ UNCHANGED <<idtr, pic_offsets, rsp, frames_left, exc, reported>>
    /\ UNCHANGED <<entry, pr_kind, pr_step, pr_bytes, saved_if, exc_if, WRITER,
                   SERIAL1, PICS, column_position, spin, panicked, execVars, hvec, hlog>>
    /\ UNCHANGED <<heapVars, simpleVars, vgaVars, memVars>>

\* init: interrupts::init_idt(), IDT.load().
init_idt ==
    /\ AtStatement("init_idt")
    /\ idtr' = "IDT"
    /\ init_log' = Append(init_log, "IDT.load")
    /\ bpc' = "pics_lock"
    /\ UNCHANGED <<gdtr, task_register, pic_offsets, rsp, frames_left, exc, reported>>
    /\ UNCHANGED <<entry, pr_kind, pr_step, pr_bytes, saved_if, exc_if, WRITER,
                   SERIAL1, PICS, column_position, spin, int_flag, panicked, execVars, hvec, hlog>>
    /\ UNCHANGED <<heapVars, simpleVars, vgaVars, memVars>>

\* tests/stack_overflow.rs: init_test_idt(), TEST_IDT.load().
init_test_idt ==
    /\ AtStatement("init_test_idt")
    /\ idtr' = "TEST_IDT"
    /\ init_log' = Append(init_log, "TEST_IDT.load")
    /\ bpc' = "recurse"
    /\ UNCHANGED <<gdtr, task_register, pic_offsets, rsp, frames_left, exc, reported>>
    /\ UNCHANGED <<entry, pr_kind, pr_step, pr_bytes, saved_if, exc_if, WRITER,
                   SERIAL1, PICS, column_position, spin, int_flag, panicked, execVars, hvec, hlog>>
    /\ UNCHANGED <<heapVars, simpleVars, vgaVars, memVars>>

\* init: PICS.lock().
init_pics_lock ==
    /\ AtStatement("pics_lock")
    /\ PICS = "free"
    /\ PICS' = "main"
    /\ bpc' = "pics_initialize"
    /\ UNCHANGED <<entry, pr_kind, pr_step, pr_bytes, saved_if, exc_if, WRITER,
                   SERIAL1, column_position, spin, int_flag, panicked, execVars, hvec, hlog>>
    /\ UNCHANGED <<heapVars, simpleVars, vgaVars, memVars, cpuVars>>

\* init: .initialize(), and the guard is dropped at the end of the statement.
init_pics_initialize ==
    /\ AtStatement("pics_initialize")
    /\ PICS' = "free"
    /\ bpc' = "enable"
    /\ pic_offsets' = <<PIC_1_OFFSET, PIC_2_OFFSET>>
    /\ init_log' = Append(init_log, "PICS.initialize")
    /\ UNCHANGED <<gdtr, task_register, idtr, rsp, frames_left, exc, reported>>
    /\ UNCHANGED <<entry, pr_kind, pr_step, pr_bytes, saved_if, exc_if, WRITER,
                   SERIAL1, column_position, spin, int_flag, panicked, execVars, hvec, hlog>>
    /\ UNCHANGED <<heapVars, simpleVars, vgaVars, memVars>>

\* init: x86_64::instructions::interrupts::enable().
init_enable ==
    /\ AtStatement("enable")
    /\ int_flag' = TRUE
    /\ init_log' = Append(init_log, "enable")
    /\ UNCHANGED <<gdtr, task_register, idtr, pic_offsets, rsp, frames_left, exc, reported>>
    /\ bpc' = IF entry = "kernel_main" THEN "init_heap" ELSE "test_runner"
    /\ UNCHANGED <<entry, pr_kind, pr_step, pr_bytes, saved_if, exc_if, WRITER,
                   SERIAL1, PICS, column_position, spin, panicked, execVars, hvec, hlog>>
    /\ UNCHANGED <<heapVars, simpleVars, vgaVars, memVars>>

\* kernel_main: the example mapping, then init_heap(..).expect(..), which
\* panics when init_heap returns Err.  init_heap returns Ok or, when the frame
\* allocator is exhausted, Err(FrameAllocationFailed).
kernel_main_init_heap ==
    /\ AtStatement("init_heap")
    /\ \E ok \in BOOLEAN :
        IF ok
        THEN /\ ih_pc' = "Ok"
             /\ bpc' = "box"
             /\ panicked' = panicked
        ELSE /\ ih_pc' = "FrameAllocationFailed"
             /\ bpc' = "panic"
             /\ panicked' = "heap initialization failed"
    /\ UNCHANGED <<entry, pr_kind, pr_step, pr_bytes, saved_if, exc_if, WRITER,
                   SERIAL1, PICS, column_position, spin, int_flag, execVars, hvec, hlog>>
    /\ UNCHANGED <<memory_map, fa_next, fa_out, level_4_table_frame, tables, ih_page,
                   assigned, tr>>
    /\ UNCHANGED <<heapVars, simpleVars, vgaVars, cpuVars>>

\* kernel_main: Box::new(41).  Dummy::alloc returns the null pointer, which
\* Box::new turns into the allocation-failure panic.
kernel_main_box ==
    /\ AtStatement("box")
    /\ bpc' = "panic"
    /\ panicked' = "memory allocation failed"
    /\ UNCHANGED <<entry, pr_kind, pr_step, pr_bytes, saved_if, exc_if, WRITER,
                   SERIAL1, PICS, column_position, spin, int_flag, execVars, hvec, hlog>>
    /\ UNCHANGED <<heapVars, simpleVars, vgaVars, memVars, cpuVars>>

\* main.rs panic handler: println!("{info}"), then hlt_loop().
panic_handler ==
    /\ AtStatement("panic")
    /\ \E msg \in PanicTexts : CallPrint("vga", msg \o <<Newline>>, "hlt_loop")
    /\ UNCHANGED <<entry, saved_if, exc_if, WRITER, SERIAL1, PICS, column_position,
                   spin, int_flag, panicked, execVars, hvec, hlog>>
    /\ UNCHANGED <<heapVars, simpleVars, vgaVars, memVars, cpuVars>>

\* test_runner: serial_println!("Running {} tests", ..), and for the test
\* serial_print!("{}...\t", ..).
test_runner ==
    /\ AtStatement("test_runner")
    /\ \E msg \in PanicTexts : CallPrint("serial", msg, "int3")
    /\ UNCHANGED <<entry, saved_if, exc_if, WRITER, SERIAL1, PICS, column_position,
                   spin, int_flag, panicked, execVars, hvec, hlog>>
    /\ UNCHANGED <<heapVars, simpleVars, vgaVars, memVars, cpuVars>>

\* test_breakpoint_exception: int3.  The CPU enters breakpoint_handler through
\* its interrupt gate, with the frame returning to the instruction after the
\* int3; the handler prints the frame with println!.
breakpoint_handler ==
    /\ AtStatement("int3")
    /\ LET e == Deliver(Breakpoint, rsp, "int3", NoAddr, "none", "ok") IN
          /\ e.handler = "breakpoint_handler"
          /\ exc' = e
          /\ rsp' = e.stack
          /\ reported' = Append(reported, Report(e.handler, "stack_frame", e.ret))
    /\ exc_if' = int_flag
    /\ int_flag' = FALSE
    /\ \E msg \in PanicTexts : CallPrint("vga", msg \o <<Newline>>, "iret")
    /\ UNCHANGED <<entry, saved_if, WRITER, SERIAL1, PICS, column_position, spin,
                   panicked, execVars, hvec, hlog>>
    /\ UNCHANGED <<gdtr, task_register, idtr, pic_offsets, init_log, frames_left>>
    /\ UNCHANGED <<heapVars, simpleVars, vgaVars, memVars>>

\* A breakpoint_handler that parks the CPU instead of returning.
breakpoint_iret_missing ==
    /\ AtStatement("iret")
    /\ int_flag' = int_flag
    /\ bpc' = "hlt_loop"
    /\ UNCHANGED <<entry, pr_kind, pr_step, pr_bytes, saved_if, exc_if, WRITER,
                   SERIAL1, PICS, column_position, spin, panicked, execVars, hvec, hlog>>
    /\ UNCHANGED <<heapVars, simpleVars, vgaVars, memVars, cpuVars>>

\* breakpoint_handler returns: iret restores the pushed RFLAGS and continues
\* at the position of the pushed frame.
breakpoint_iret ==
    /\ AtStatement("iret")
    /\ int_flag' = exc_if
    /\ bpc' = exc.ret
    /\ UNCHANGED <<entry, pr_kind, pr_step, pr_bytes, saved_if, exc_if, WRITER,
                   SERIAL1, PICS, column_position, spin, panicked, execVars, hvec, hlog>>
    /\ UNCHANGED <<heapVars, simpleVars, vgaVars, memVars, cpuVars>>

\* Testable::run: serial_println!("[ok]").
test_ok ==
    /\ AtStatement("ok")
    /\ CallPrint("serial", OkText, "exit_qemu")
    /\ UNCHANGED <<entry, saved_if, exc_if, WRITER, SERIAL1, PICS, column_position,
                   spin, int_flag, panicked, execVars, hvec, hlog>>
    /\ UNCHANGED <<heapVars, simpleVars, vgaVars, memVars, cpuVars>>

\* test_runner: exit_qemu(QemuExitCode::Success) ends the machine.
exit_qemu ==
    /\ AtStatement("exit_qemu")
    /\ bpc' = "exited"
    /\ UNCHANGED <<entry, pr_kind, pr_step, pr_bytes, saved_if, exc_if, WRITER,
                   SERIAL1, PICS, column_position, spin, int_flag, panicked, execVars, hvec, hlog>>
    /\ UNCHANGED <<heapVars, simpleVars, vgaVars, memVars, cpuVars>>

\* ------------------------------------------------------------------ interrupt handlers

\* One operation of a handler, as hlog records it.
Op(op, arg) == [op |-> op, arg |-> arg]

\* The end of both hardware handlers, after the operations in log:
\* PICS.lock().notify_end_of_interrupt(vector).
notify_end_of_interrupt(vector, log) ==
    IF PICS = "free"
    THEN /\ hlog' = Append(log, Op("eoi", vector))
         /\ UNCHANGED <<spin, int_flag>>
    ELSE /\ hlog' = log
         /\ SpinOn("PICS")

\* A hardware interrupt is delivered: the flag is set, no handler is stuck and
\* the machine is running.
Delivered ==
    /\ int_flag
    /\ spin = "none"
    /\ bpc \notin {"start", "exited", "reset"}

\* A timer handler that signals the end of interrupt on the keyboard's vector.
timer_interrupt_handler_other_vector ==
    /\ Delivered
    /\ hvec' = InterruptIndex_Timer
    /\ IF WRITER = "free"
       THEN /\ column_position' = write_byte(column_position, Head(Dot))
            /\ notify_end_of_interrupt(InterruptIndex_Keyboard,
                                       <<Op("print", Head(Dot))>>)
       ELSE /\ SpinOn("WRITER")
            /\ hlog' = <<>>
            /\ UNCHANGED column_position
    /\ UNCHANGED <<entry, bpc, pr_kind, pr_step, pr_bytes, saved_if, exc_if, WRITER,
                   SERIAL1, PICS, panicked, execVars>>
    /\ UNCHANGED <<heapVars, simpleVars, vgaVars, memVars, cpuVars>>

\* timer_interrupt_handler, entered through idt[InterruptIndex::Timer] and run
\* between two steps of the pre-empted code: print!("."), which goes through
\* vga::_print, then the EOI.
timer_interrupt_handler ==
    /\ Delivered
    /\ hvec' = InterruptIndex_Timer
    /\ IF WRITER = "free"
       THEN /\ column_position' = write_byte(column_position, Head(Dot))
            /\ notify_end_of_interrupt(InterruptIndex_Timer,
                                       <<Op("print", Head(Dot))>>)
       ELSE /\ SpinOn("WRITER")
            /\ hlog' = <<>>
            /\ UNCHANGED column_position
    /\ UNCHANGED <<entry, bpc, pr_kind, pr_step, pr_bytes, saved_if, exc_if, WRITER,
                   SERIAL1, PICS, panicked, execVars>>
    /\ UNCHANGED <<heapVars, simpleVars, vgaVars, memVars, cpuVars>>

\* What keyboard_interrupt_handler does before it prints: KEYBOARD.lock(), one
\* read of the data port, then keyboard.add_byte and process_keyevent on the
\* byte read.
KeyboardPrologue(b) ==
    <<Op("KEYBOARD.lock", 0), Op("port.read", b), Op("decode", b)>>

\* keyboard_interrupt_handler for the scancode b, entered through
\* idt[InterruptIndex::Keyboard]: a make code decodes to a key, which is
\* printed with print!; then the EOI.
keyboard_interrupt_handler(b) ==
    /\ Delivered
    /\ hvec' = InterruptIndex_Keyboard
    /\ IF IsMake(b)
       THEN IF WRITER = "free"
            THEN /\ column_position' = write_byte(column_position, Head(KeyText))
                 /\ notify_end_of_interrupt(InterruptIndex_Keyboard,
                        Append(KeyboardPrologue(b), Op("print", Head(KeyText))))
            ELSE /\ SpinOn("WRITER")
                 /\ hlog' = KeyboardPrologue(b)
                 /\ UNCHANGED column_position
       ELSE /\ notify_end_of_interrupt(InterruptIndex_Keyboard, KeyboardPrologue(b))
            /\ UNCHANGED column_position
    /\ UNCHANGED <<entry, bpc, pr_kind, pr_step, pr_bytes, saved_if, exc_if, WRITER,
                   SERIAL1, PICS, panicked, execVars>>
    /\ UNCHANGED <<heapVars, simpleVars, vgaVars, memVars, cpuVars>>

\* ------------------------------------------------------------------ heap allocator

\* allocator.rs:16, the size of the heap region in bytes.
HEAP_SIZE == 100 * 1024

\* Size4KiB::SIZE, the size of a page and of a frame in bytes.
PAGE_SIZE == 4096

\* Number of GlobalAlloc calls explored.
MaxHeapCalls == 3

\* Layout sizes and alignments of the explored requests: a byte, a word, a
\* page and the whole region.
HeapSizes == {1, 8, PAGE_SIZE, HEAP_SIZE}

HeapAligns == {1, 8, PAGE_SIZE}

\* x rounded up to a multiple of align.
AlignUp(x, align) == ((x + align - 1) \div align) * align

\* Everything but the allocator history, the interrupt flag and the panic.
notHeapVars == <<NEXT_ID, issued, created, tasks, task_queue, waker_cache, handles, fut,
                 pc, cur, result, int_flag, completions, done, ev, kbdVars, bootVars,
                 simpleVars, vgaVars, memVars, cpuVars>>

\* Dummy::alloc(layout): returns the null pointer, whatever the layout.  The
\* history records whether the request would still fit in the region after the
\* requests that fitted before it.
Dummy_alloc(size, align) ==
    /\ Running
    /\ h_calls < MaxHeapCalls
    /\ h_calls' = h_calls + 1
    /\ LET fits == AlignUp(h_need, align) + size <= HEAP_SIZE
           ptr == null_mut
       IN /\ h_last' = [op |-> "alloc", size |-> size, align |-> align, fits |-> fits,
                        outstanding |-> Cardinality(h_live), ptr |-> ptr]
          /\ h_need' = IF fits THEN AlignUp(h_need, align) + size ELSE h_need
          /\ h_live' = IF ptr = null_mut THEN h_live
                       ELSE h_live \cup {[ptr |-> ptr, size |-> size]}
    /\ UNCHANGED <<panicked, notHeapVars>>

\* Dummy::dealloc(ptr, layout): panics, whatever the pointer.
Dummy_dealloc(ptr, size) ==
    /\ Running
    /\ h_calls < MaxHeapCalls
    /\ h_calls' = h_calls + 1
    /\ h_last' = [op |-> "dealloc", size |-> size, align |-> 1, fits |-> FALSE,
                  outstanding |-> Cardinality(h_live), ptr |-> ptr]
    /\ panicked' = "dealloc should never be called"
    /\ UNCHANGED <<h_need, h_live, notHeapVars>>

\* ------------------------------------------------------------------ frame allocator

\* Longest first usable region of the explored memory maps, in frames.
MaxFirstRegion == 3

\* Length of the second usable region of the explored memory maps, in frames,
\* when there is one.
SecondRegionFrames == 26

\* Number of allocate_frame calls explored after the last frame was handed out.
MaxExhaustedCalls == 2

\* Option::None of allocate_frame.
NoFrame == -1

\* The frame numbers of one region of the memory map, in ascending order.
RegionFrames(r) == [i \in 1 .. (r.end - r.start) |-> r.start + i - 1]

\* The frames of the regions marked usable, in the order of the memory map.
RECURSIVE UsableFrames(_)
UsableFrames(map) ==
    IF map = <<>> THEN <<>>
    ELSE (IF Head(map).usable THEN RegionFrames(Head(map)) ELSE <<>>)
             \o UsableFrames(Tail(map))

\* An allocate_frame that hands out the frame under the cursor and leaves the
\* cursor where it is.
allocate_frame_no_advance(map, next) ==
    IF next < Len(UsableFrames(map))
    THEN [frame |-> UsableFrames(map)[next + 1], next |-> next]
    ELSE [frame |-> NoFrame, next |-> next]

\* BootInfoFrameAllocator::allocate_frame with the cursor at next: the next
\* unused frame of the usable memory map and the advanced cursor, or exhausted.
allocate_frame(map, next) ==
    IF next < Len(UsableFrames(map))
    THEN [frame |-> UsableFrames(map)[next + 1], next |-> next + 1]
    ELSE [frame |-> NoFrame, next |-> next]

\* ------------------------------------------------------------------ page tables

\* HEAP_START = 0x4444_4444_0000 as its level 4, 3, 2 and 1 table indexes; its
\* page offset is 0.
HEAP_START_INDEX == <<136, 273, 34, 64>>

\* Number of pages of Page::range_inclusive(heap_start_page, heap_end_page),
\* with heap_end = heap_start + HEAP_SIZE - 1 and heap_start page-aligned.
HeapPages == ((HEAP_SIZE - 1) \div PAGE_SIZE) + 1

\* The k-th page of the heap range (k from 0), as its four table indexes.
HeapPage(k) == [HEAP_START_INDEX EXCEPT ![4] = @ + k]

\* A virtual address: the table indexes of its page and its page offset.
VirtAddr(idx, off) == [idx |-> idx, off |-> off]

\* PageTableEntry::new(), an unused entry.
UnusedEntry == [present |-> FALSE, writable |-> FALSE, huge |-> FALSE, frame |-> 0]

\* table[index] of the table in frame, with the tables as t.
EntryAt(t, frame, index) ==
    IF <<frame, index>> \in DOMAIN t THEN t[<<frame, index>>] ELSE UnusedEntry

\* PageTableEntry::frame(): the present flag is tested before the huge flag.
entry_frame(pte) ==
    IF ~pte.present THEN "FrameNotPresent"
    ELSE IF pte.huge THEN "HugeFrame"
    ELSE "Ok"

\* A walk that follows an entry's frame whatever its present flag says.
RECURSIVE Walk_ignoring_present(_, _, _, _)
Walk_ignoring_present(t, frame, idxs, reads) ==
    IF idxs = <<>> THEN [kind |-> "frame", frame |-> frame, reads |-> reads]
    ELSE LET pte == EntryAt(t, frame, Head(idxs))
         IN IF pte.huge
            THEN [kind |-> "panic", frame |-> 0, reads |-> reads + 1]
            ELSE Walk_ignoring_present(t, pte.frame, Tail(idxs), reads + 1)

\* The loop of translate_addr_inner from the table in frame on, for the
\* indexes still to follow, after reads entries have been read.
RECURSIVE Walk(_, _, _, _)
Walk(t, frame, idxs, reads) ==
    IF idxs = <<>> THEN [kind |-> "frame", frame |-> frame, reads |-> reads]
    ELSE LET pte == EntryAt(t, frame, Head(idxs))
             r == entry_frame(pte)
         IN IF r = "Ok" THEN Walk(t, pte.frame, Tail(idxs), reads + 1)
            ELSE IF r = "FrameNotPresent"
            THEN [kind |-> "None", frame |-> 0, reads |-> reads + 1]
            ELSE [kind |-> "panic", frame |-> 0, reads |-> reads + 1]

\* A translation that returns the start address of the frame, without the
\* page offset.
translate_addr_inner_no_offset(t, cr3, addr) ==
    LET w == Walk(t, cr3, addr.idx, 0)
    IN IF w.kind = "frame"
       THEN [kind |-> "Some", phys |-> w.frame * PAGE_SIZE, reads |-> w.reads]
       ELSE [kind |-> w.kind, phys |-> 0, reads |-> w.reads]

\* translate_addr_inner(addr, ..) with the tables t and CR3 = cr3: Some(physical
\* address), None, or the panic; reads counts the entries it read.
translate_addr_inner(t, cr3, addr) ==
    LET w == Walk(t, cr3, addr.idx, 0)
    IN IF w.kind = "frame"
       THEN [kind |-> "Some", phys |-> w.frame * PAGE_SIZE + addr.off,
             reads |-> w.reads]
       ELSE [kind |-> w.kind, phys |-> 0, reads |-> w.reads]

\* PageTableEntry::is_unused(): the entry is all zero.
is_unused(pte) == pte = UnusedEntry

\* The tables t with the entry of (frame, index) set to pte.
SetEntry(t, frame, index, pte) ==
    [k \in DOMAIN t \cup {<<frame, index>>} |->
        IF k = <<frame, index>> THEN pte ELSE t[k]]

\* PageTable::zero() on the table in frame: every entry of it unused.
ZeroTable(t, frame) ==
    [k \in {d \in DOMAIN t : d[1] # frame} |-> t[k]]

\* The entry that set_frame(frame, PRESENT | WRITABLE) writes.
MappedEntry(frame) ==
    [present |-> TRUE, writable |-> TRUE, huge |-> FALSE, frame |-> frame]

\* The page-table walker's create_next_table on the entry (tbl, index), as
\* map_to uses it: an unused entry gets a zeroed table in a frame taken from
\* the frame allocator; a used one gets the parent flags PRESENT | WRITABLE
\* added and must not be a huge page.  got lists what allocate_frame returned.
create_next_table(t, map, next, tbl, index) ==
    LET pte == EntryAt(t, tbl, index)
        a == allocate_frame(map, next)
    IN IF is_unused(pte)
       THEN IF a.frame = NoFrame
            THEN [res |-> "FrameAllocationFailed", t |-> t, next |-> a.next,
                  got |-> <<NoFrame>>, table |-> 0]
            ELSE [res |-> "Ok",
                  t |-> SetEntry(ZeroTable(t, a.frame), tbl, index, MappedEntry(a.frame)),
                  next |-> a.next, got |-> <<a.frame>>, table |-> a.frame]
       ELSE [res |-> IF pte.huge THEN "ParentEntryHugePage" ELSE "Ok",
             t |-> SetEntry(t, tbl, index,
                            [pte EXCEPT !.present = TRUE, !.writable = TRUE]),
             next |-> next, got |-> <<>>, table |-> pte.frame]

\* mapper.map_to(page, frame, PRESENT | WRITABLE, frame_allocator) of the
\* OffsetPageTable over the active level 4 table: the three parent tables are
\* found or created, then the level 1 entry is set unless it is in use.
map_to(t, cr3, map, next, page, frame) ==
    LET c3 == create_next_table(t, map, next, cr3, page[1])
        c2 == create_next_table(c3.t, map, c3.next, c3.table, page[2])
        c1 == create_next_table(c2.t, map, c2.next, c2.table, page[3])
    IN IF c3.res # "Ok" THEN [res |-> c3.res, t |-> c3.t, next |-> c3.next,
                               got |-> c3.got]
       ELSE IF c2.res # "Ok" THEN [res |-> c2.res, t |-> c2.t, next |-> c2.next,
                                    got |-> c3.got \o c2.got]
       ELSE IF c1.res # "Ok" THEN [res |-> c1.res, t |-> c1.t, next |-> c1.next,
                                    got |-> c3.got \o c2.got \o c1.got]
       ELSE IF ~is_unused(EntryAt(c1.t, c1.table, page[4]))
       THEN [res |-> "PageAlreadyMapped", t |-> c1.t, next |-> c1.next,
             got |-> c3.got \o c2.got \o c1.got]
       ELSE [res |-> "Ok",
             t |-> SetEntry(c1.t, c1.table, page[4], MappedEntry(frame)),
             next |-> c1.next, got |-> c3.got \o c2.got \o c1.got]

\* Everything but the paging state and the panic.
notMemVars == <<NEXT_ID, issued, created, tasks, task_queue, waker_cache, handles, fut,
                pc, cur, result, int_flag, completions, done, ev, kbdVars, bootVars,
                heapVars, simpleVars, vgaVars, cpuVars>>

\* A direct call of frame_allocator.allocate_frame() by the boot sequence,
\* outside init_heap.
allocate_frame_call ==
    /\ Running
    /\ ih_pc # "loop"
    /\ Count(fa_out, NoFrame) < MaxExhaustedCalls
    /\ LET a == allocate_frame(memory_map, fa_next)
       IN /\ fa_next' = a.next
          /\ fa_out' = Append(fa_out, a.frame)
    /\ UNCHANGED <<memory_map, level_4_table_frame, tables, ih_pc, ih_page, assigned,
                   tr, panicked, notMemVars>>

\* init_heap is called: the page range is computed.
init_heap_enter ==
    /\ Running
    /\ ih_pc = "none"
    /\ ih_pc' = "loop"
    /\ UNCHANGED <<memory_map, fa_next, fa_out, level_4_table_frame, tables, ih_page,
                   assigned, tr, panicked, notMemVars>>

\* An init_heap whose loop allocates one frame before the loop and maps every
\* page to it.
init_heap_page_same_frame ==
    /\ Running
    /\ ih_pc = "loop"
    /\ ih_page < HeapPages
    /\ LET a == IF assigned = <<>> THEN allocate_frame(memory_map, fa_next)
                ELSE [frame |-> assigned[1], next |-> fa_next]
           m == map_to(tables, level_4_table_frame, memory_map, a.next,
                       HeapPage(ih_page), a.frame)
       IN IF a.frame = NoFrame
          THEN /\ ih_pc' = "FrameAllocationFailed"
               /\ fa_out' = Append(fa_out, NoFrame)
               /\ UNCHANGED <<fa_next, tables, ih_page, assigned>>
          ELSE /\ tables' = m.t
               /\ fa_next' = m.next
               /\ fa_out' = fa_out \o (IF assigned = <<>> THEN <<a.frame>> ELSE <<>>)
                                   \o m.got
               /\ IF m.res = "Ok"
                  THEN /\ ih_page' = ih_page + 1
                       /\ assigned' = Append(assigned, a.frame)
                       /\ ih_pc' = "loop"
                  ELSE /\ ih_pc' = m.res
                       /\ UNCHANGED <<ih_page, assigned>>
    /\ UNCHANGED <<memory_map, level_4_table_frame, tr, panicked, notMemVars>>

\* An init_heap that, when allocate_frame fails, gives the frames of the pages
\* it mapped back to the frame allocator before it returns the error.
init_heap_page_rollback ==
    /\ Running
    /\ ih_pc = "loop"
    /\ ih_page < HeapPages
    /\ LET a == allocate_frame(memory_map, fa_next)
           m == map_to(tables, level_4_table_frame, memory_map, a.next,
                       HeapPage(ih_page), a.frame)
       IN IF a.frame = NoFrame
          THEN /\ ih_pc' = "FrameAllocationFailed"
               /\ fa_out' = Append(fa_out, NoFrame)
               /\ fa_next' = fa_next - Len(assigned)
               /\ UNCHANGED <<tables, ih_page, assigned>>
          ELSE /\ tables' = m.t
               /\ fa_next' = m.next
               /\ fa_out' = (fa_out \o <<a.frame>>) \o m.got
               /\ IF m.res = "Ok"
                  THEN /\ ih_page' = ih_page + 1
                       /\ assigned' = Append(assigned, a.frame)
                       /\ ih_pc' = "loop"
                  ELSE /\ ih_pc' = m.res
                       /\ UNCHANGED <<ih_page, assigned>>
    /\ UNCHANGED <<memory_map, level_4_table_frame, tr, panicked, notMemVars>>

\* One iteration of the loop of init_heap, for the next page of the range:
\* allocate_frame().ok_or(FrameAllocationFailed)?, then map_to(..)?.flush().
init_heap_page ==
    /\ Running
    /\ ih_pc = "loop"
    /\ ih_page < HeapPages
    /\ LET a == allocate_frame(memory_map, fa_next)
           m == map_to(tables, level_4_table_frame, memory_map, a.next,
                       HeapPage(ih_page), a.frame)
       IN IF a.frame = NoFrame
          THEN /\ ih_pc' = "FrameAllocationFailed"
               /\ fa_out' = Append(fa_out, NoFrame)
               /\ UNCHANGED <<fa_next, tables, ih_page, assigned>>
          ELSE /\ tables' = m.t
               /\ fa_next' = m.next
               /\ fa_out' = (fa_out \o <<a.frame>>) \o m.got
               /\ IF m.res = "Ok"
                  THEN /\ ih_page' = ih_page + 1
                       /\ assigned' = Append(assigned, a.frame)
                       /\ ih_pc' = "loop"
                  ELSE /\ ih_pc' = m.res
                       /\ UNCHANGED <<ih_page, assigned>>
    /\ UNCHANGED <<memory_map, level_4_table_frame, tr, panicked, notMemVars>>

\* init_heap: the range is exhausted and Ok(()) is returned.
init_heap_return ==
    /\ Running
    /\ ih_pc = "loop"
    /\ ih_page = HeapPages
    /\ ih_pc' = "Ok"
    /\ UNCHANGED <<memory_map, fa_next, fa_out, level_4_table_frame, tables, ih_page,
                   assigned, tr, panicked, notMemVars>>

\* translate_addr(addr, physical_memory_offset), called by the boot sequence.
translate_addr(addr) ==
    /\ Running
    /\ ih_pc # "loop"
    /\ LET res == translate_addr_inner(tables, level_4_table_frame, addr)
       IN /\ tr' = [op |-> "translate", addr |-> addr, res |-> res]
          /\ panicked' = IF res.kind = "panic" THEN "huge pages not supported"
                         ELSE panicked
    /\ UNCHANGED <<memory_map, fa_next, fa_out, level_4_table_frame, tables, ih_pc,
                   ih_page, assigned, notMemVars>>

\* ------------------------------------------------------------------ exceptions

\* The page below the boot stack, which the bootloader leaves unmapped.
StackGuardPage == VirtAddr(<<0, 0, 0, 200>>, PAGE_SIZE - 8)

\* The addresses of the faulting accesses explored: one whose level 1 entry is
\* not present, one in the heap range, and a push below the boot stack.
FaultAddrs ==
    {VirtAddr(<<0, 0, 0, 185>>, 0), VirtAddr(HeapPage(0), 8), StackGuardPage}

\* PageFaultErrorCode of the faulting accesses explored: CAUSED_BY_WRITE set
\* or not.
AccessKinds == {"read", "write"}

\* The positions of page_fault_handler, one per println!, and the position
\* after the last.
PfSteps ==
    <<"page_fault_handler", "pf_address", "pf_error_code", "pf_stack_frame", "hlt_loop">>

\* What each println! of page_fault_handler reports.
PfWhat == <<"EXCEPTION: PAGE FAULT", "Accessed Address", "Error Code", "stack_frame">>

\* The first letter of each line page_fault_handler prints, and the newline of
\* println!.
PfText == <<<<69, Newline>>, <<65, Newline>>, <<69, Newline>>, <<73, Newline>>>>

\* _start of tests/stack_overflow.rs: serial_print!("stack_overflow::stack_overflow...\t").
stack_overflow_start ==
    /\ AtStatement("start")
    /\ entry = "stack_overflow"
    /\ \E msg \in PanicTexts : CallPrint("serial", msg, "so_gdt")
    /\ UNCHANGED <<entry, saved_if, exc_if, WRITER, SERIAL1, PICS, column_position,
                   spin, int_flag, panicked, execVars, hvec, hlog>>
    /\ UNCHANGED <<heapVars, simpleVars, vgaVars, memVars, cpuVars>>

\* stack_overflow(): one more call of itself.  The call pushes a frame on the
\* boot stack; once the stack is used up the push lands in the guard page and
\* raises a page fault with the stack pointer there.
stack_overflow ==
    /\ AtStatement("recurse")
    /\ IF frames_left > 0
       THEN /\ frames_left' = frames_left - 1
            /\ UNCHANGED <<exc, rsp, exc_if, int_flag, bpc>>
       ELSE /\ Enter(Deliver(PageFault, "guard", "stack overflow", StackGuardPage,
                             "write", "recurse"))
            /\ UNCHANGED frames_left
    /\ UNCHANGED <<gdtr, task_register, idtr, pic_offsets, init_log, reported>>
    /\ UNCHANGED <<entry, pr_kind, pr_step, pr_bytes, saved_if, WRITER, SERIAL1, PICS,
                   column_position, spin, panicked, execVars, hvec, hlog>>
    /\ UNCHANGED <<heapVars, simpleVars, vgaVars, memVars>>

\* test_double_fault_handler: serial_println!("[ok]"), exit_qemu(Success).
test_double_fault_handler ==
    /\ AtStatement("test_double_fault_handler")
    /\ CallPrint("serial", OkText, "exit_qemu")
    /\ reported' = Append(reported, Report("test_double_fault_handler", "[ok]", exc.ret))
    /\ UNCHANGED <<gdtr, task_register, idtr, pic_offsets, init_log, rsp, frames_left, exc>>
    /\ UNCHANGED <<entry, saved_if, exc_if, WRITER, SERIAL1, PICS, column_position,
                   spin, int_flag, panicked, execVars, hvec, hlog>>
    /\ UNCHANGED <<heapVars, simpleVars, vgaVars, memVars>>

\* An instruction of kernel_main after init() accesses an address that the
\* page tables do not map: the CPU raises a page fault, with the address in
\* CR2.  For the guard page the access is the push of a call frame.
page_fault(addr, code) ==
    /\ AtStatement("init_heap")
    /\ entry = "kernel_main"
    /\ translate_addr_inner(tables, level_4_table_frame, addr).kind = "None"
    /\ IF addr = StackGuardPage
       THEN /\ code = "write"
            /\ Enter(Deliver(PageFault, "guard", "stack overflow", addr, code, "init_heap"))
       ELSE Enter(Deliver(PageFault, rsp, "access", addr, code, "init_heap"))
    /\ UNCHANGED <<gdtr, task_register, idtr, pic_offsets, init_log, frames_left, reported>>
    /\ UNCHANGED <<entry, pr_kind, pr_step, pr_bytes, saved_if, WRITER, SERIAL1, PICS,
                   column_position, spin, panicked, execVars, hvec, hlog>>
    /\ UNCHANGED <<heapVars, simpleVars, vgaVars, memVars>>

\* The value a println! of page_fault_handler formats: Cr2::read(), the error
\* code, the stack frame.
PfValue(i) ==
    CASE i = 2 -> exc.addr
      [] i = 3 -> exc.code
      [] i = 4 -> exc.ret
      [] OTHER -> PfWhat[i]

\* A page_fault_handler that returns after its report, so that the faulting
\* instruction is executed again.
page_fault_handler_returning ==
    /\ \E i \in 1 .. 4 :
          /\ AtStatement(PfSteps[i])
          /\ CallPrint("vga", PfText[i], IF i = 4 THEN exc.ret ELSE PfSteps[i + 1])
          /\ reported' = Append(reported, Report("page_fault_handler", PfWhat[i], PfValue(i)))
    /\ UNCHANGED <<gdtr, task_register, idtr, pic_offsets, init_log, rsp, frames_left, exc>>
    /\ UNCHANGED <<entry, saved_if, exc_if, WRITER, SERIAL1, PICS, column_position,
                   spin, int_flag, panicked, execVars, hvec, hlog>>
    /\ UNCHANGED <<heapVars, simpleVars, vgaVars, memVars>>

\* page_fault_handler: the four println!, then hlt_loop(), which never
\* returns; the interrupt gate left the interrupt flag clear.
page_fault_handler ==
    /\ \E i \in 1 .. 4 :
          /\ AtStatement(PfSteps[i])
          /\ CallPrint("vga", PfText[i], PfSteps[i + 1])
          /\ reported' = Append(reported, Report("page_fault_handler", PfWhat[i], PfValue(i)))
    /\ UNCHANGED <<gdtr, task_register, idtr, pic_offsets, init_log, rsp, frames_left, exc>>
    /\ UNCHANGED <<entry, saved_if, exc_if, WRITER, SERIAL1, PICS, column_position,
                   spin, int_flag, panicked, execVars, hvec, hlog>>
    /\ UNCHANGED <<heapVars, simpleVars, vgaVars, memVars>>

\* double_fault_handler: panic!("EXCEPTION: DOUBLE FAULT\n{:#?}", stack_frame);
\* the panic handler prints the message and parks the CPU.
double_fault_handler ==
    /\ AtStatement("double_fault_handler")
    /\ panicked' = "EXCEPTION: DOUBLE FAULT"
    /\ bpc' = "panic"
    /\ reported' = Append(reported, Report("double_fault_handler", "stack_frame", exc.ret))
    /\ UNCHANGED <<gdtr, task_register, idtr, pic_offsets, init_log, rsp, frames_left, exc>>
    /\ UNCHANGED <<entry, pr_kind, pr_step, pr_bytes, saved_if, exc_if, WRITER,
                   SERIAL1, PICS, column_position, spin, int_flag, execVars, hvec, hlog>>
    /\ UNCHANGED <<heapVars, simpleVars, vgaVars, memVars>>

\* ------------------------------------------------------------------ specification

\* The executor and the keyboard statics before `Executor::new()` returns.
ExecInit ==
    /\ NEXT_ID = 0
    /\ issued = <<>>
    /\ created = {}
    /\ tasks = {}
    /\ task_queue = <<>>
    /\ waker_cache = {}
    /\ handles = {}
    /\ fut = [t \in TaskIds |-> "start"]
    /\ pc = "setup"
    /\ cur = NoTask
    /\ result = "none"
    /\ panicked = "none"
    /\ completions = 0
    /\ done = {}
    /\ ev = Ev("init", NoTask)
    /\ scq_init = FALSE
    /\ SCANCODE_QUEUE = <<>>
    /\ WAKER = NoTask
    /\ kstep = "idle"
    /\ scancode = 0
    /\ keys = 0
    /\ accepted = <<>>
    /\ delivered = <<>>
    /\ simple_task_queue = <<>>
    /\ simple_pc = "setup"
    /\ task = NoTask
    /\ spawned = <<>>
    /\ polled = <<>>
    /\ finished = {}
    /\ vga_writes = 0
    /\ vga_newlines = 0
    /\ vga_last = NoWrite

\* The statics of the boot sequence: unlocked mutexes, Writer at column 0.
BootStatics ==
    /\ pr_kind = "none"
    /\ pr_step = "none"
    /\ pr_bytes = <<>>
    /\ saved_if = FALSE
    /\ exc_if = FALSE
    /\ WRITER = "free"
    /\ SERIAL1 = "free"
    /\ PICS = "free"
    /\ column_position = 0
    /\ spin = "none"
    /\ hvec = 0
    /\ hlog = <<>>

\* The Dummy allocator, a unit struct, before any call of it.
HeapStatics ==
    /\ h_calls = 0
    /\ h_last = [op |-> "none", size |-> 0, align |-> 1, fits |-> FALSE,
                 outstanding |-> 0, ptr |-> null_mut]
    /\ h_need = 0
    /\ h_live = {}

\* The paging state left out of a run: no memory map, no table, nothing mapped.
MemStatics ==
    /\ memory_map = <<>>
    /\ fa_next = 0
    /\ fa_out = <<>>
    /\ level_4_table_frame = 0
    /\ tables = <<>>
    /\ ih_pc = "none"
    /\ ih_page = 0
    /\ assigned = <<>>
    /\ tr = [op |-> "none", addr |-> VirtAddr(<<0, 0, 0, 0>>, 0),
             res |-> [kind |-> "None", phys |-> 0, reads |-> 0]]

\* An Executor constructed in a kernel whose interrupts are enabled.
Init ==
    /\ ExecInit
    /\ writer = Writer_new(BlankScreen)
    /\ remaining = [t \in SimpleIds |-> 0]
    /\ int_flag = TRUE
    /\ BootStatics
    /\ HeapStatics
    /\ MemStatics
    /\ CpuStatics
    /\ frames_left = MaxStackFrames
    /\ entry = "none"
    /\ bpc = "none"

\* The steps of the main context once the Tasks exist.
Exec ==
    \/ \E t \in TaskIds : spawn(t)
    \/ run
    \/ run_ready_tasks_pop
    \/ \E res \in {"Ready", "Pending"}, handout \in BOOLEAN, target \in TaskIds \cup {NoTask} :
          Task_poll_free(res, handout, target)
    \/ run_ready_tasks_match
    \/ sleep_if_idle_disable
    \/ sleep_if_idle_check
    \/ sleep_if_idle_enable_and_hlt

Main ==
    \/ Task_new(MaxTasks)
    \/ Exec

Irq ==
    \/ \E t \in TaskIds, consume \in BOOLEAN : Irq_wake(t, consume)
    \/ Irq_other

Next ==
    \/ Main
    \/ Irq

Spec == Init /\ [][Next]_vars

\* The executor over MaxLiveTasks Tasks, with the run loop kept executing: the
\* main context is the only thread of control and no handler pre-empts it for
\* good.  Interrupt arrival is left unconstrained.
LiveMain ==
    \/ Task_new(MaxLiveTasks)
    \/ Exec

LiveNext ==
    \/ LiveMain
    \/ Irq

FairSpec == Init /\ [][LiveNext]_vars /\ WF_vars(LiveMain)

\* The executor scenario: every Task is a Task_poll_once future and every handle
\* handed out is invoked once (Wake::wake consumes it).  The scenario supposes
\* that each handle is invoked; an interrupt raised while the interrupt flag is
\* clear stays pending and is delivered when the flag is set again, hence the
\* strong fairness on the wakes.
OnceMain ==
    \/ Task_new(MaxTasks)
    \/ \E t \in TaskIds : spawn(t)
    \/ run
    \/ run_ready_tasks_pop
    \/ Task_poll_once
    \/ run_ready_tasks_match
    \/ sleep_if_idle_disable
    \/ sleep_if_idle_check
    \/ sleep_if_idle_enable_and_hlt

OnceNext ==
    \/ OnceMain
    \/ \E t \in TaskIds : Irq_wake(t, TRUE)
    \/ Irq_other

FairSpecOnce ==
    /\ Init
    /\ [][OnceNext]_vars
    /\ WF_vars(OnceMain)
    /\ \A t \in TaskIds : SF_vars(Irq_wake(t, TRUE))

\* The executor running print_keypresses Tasks, with the keyboard interrupt
\* feeding add_scancode.
KbdMain ==
    \/ Task_new(MaxLiveTasks)
    \/ \E t \in TaskIds : spawn(t)
    \/ run
    \/ run_ready_tasks_pop
    \/ print_keypresses_start
    \/ poll_next_pop1
    \/ poll_next_register
    \/ poll_next_pop2
    \/ poll_next_take
    \/ print_keypresses_body
    \/ print_keypresses_print
    \/ run_ready_tasks_match
    \/ sleep_if_idle_disable
    \/ sleep_if_idle_check
    \/ sleep_if_idle_enable_and_hlt

KbdNext ==
    \/ KbdMain
    \/ \E b \in KbdScancodes : Irq_add_scancode(b)
    \/ Irq_other

SpecKbd == Init /\ [][KbdNext]_vars

\* The print_keypresses Task t is parked: its future waits in next().await and
\* no poll of it is executing.
Suspended(t) ==
    /\ t \in tasks
    /\ fut[t] = "await"
    /\ ~(pc = "poll" /\ cur = t)

\* The global allocator called with any sequence of layouts, and dealloc with
\* the start of the region or a block that alloc returned.
HeapNext ==
    \/ \E size \in HeapSizes, align \in HeapAligns : Dummy_alloc(size, align)
    \/ \E size \in HeapSizes :
          \E ptr \in {0} \cup {b.ptr : b \in h_live} : Dummy_dealloc(ptr, size)

SpecHeap == Init /\ [][HeapNext]_vars

\* The page tables the bootloader leaves: the level 4 table in frame 1; under
\* its entry 0 a level 3, 2 and 1 table (frames 2, 3, 4) that map the VGA text
\* buffer at 0xb8000 to itself, keep one level 1 entry that is not present but
\* still holds a frame, and map one 2 MiB huge page at level 2.
BootEntries ==
    {[table |-> 1, index |-> 0, pte |-> MappedEntry(2)],
     [table |-> 2, index |-> 0, pte |-> MappedEntry(3)],
     [table |-> 3, index |-> 0, pte |-> MappedEntry(4)],
     [table |-> 3, index |-> 1,
      pte |-> [present |-> TRUE, writable |-> TRUE, huge |-> TRUE, frame |-> 512]],
     [table |-> 4, index |-> 184, pte |-> MappedEntry(184)],
     [table |-> 4, index |-> 185,
      pte |-> [present |-> FALSE, writable |-> TRUE, huge |-> FALSE, frame |-> 185]]}

BootTables ==
    [k \in {<<x.table, x.index>> : x \in BootEntries} |->
        (CHOOSE x \in BootEntries : <<x.table, x.index>> = k).pte]

\* The memory maps the bootloader passes in the explored runs: the first 8
\* frames reserved (they hold the boot page tables), a usable region of 0 ..
\* MaxFirstRegion frames, a reserved hole of 2 frames, and a second usable
\* region that is empty or SecondRegionFrames long.
BootMemoryMaps ==
    {<<[start |-> 0, end |-> 8, usable |-> FALSE],
       [start |-> 8, end |-> 8 + a, usable |-> TRUE],
       [start |-> 8 + a, end |-> 10 + a, usable |-> FALSE],
       [start |-> 10 + a, end |-> 10 + a + b, usable |-> TRUE]>> :
        a \in 0 .. MaxFirstRegion, b \in {0, SecondRegionFrames}}

\* The addresses translate_addr is called with: the first and the last byte
\* of the first and of the last heap page, the byte after the heap, the VGA
\* buffer, and addresses whose walk ends at level 4, 3, 2 and 1 or on the huge
\* page.
QueryAddrs ==
    {VirtAddr(HeapPage(k), off) : k \in {0, HeapPages - 1}, off \in {0, PAGE_SIZE - 1}}
        \cup {VirtAddr(HeapPage(HeapPages), 0),
              VirtAddr(<<0, 0, 0, 184>>, 5),
              VirtAddr(<<0, 0, 0, 185>>, 0),
              VirtAddr(<<0, 0, 2, 0>>, 0),
              VirtAddr(<<0, 1, 0, 0>>, 0),
              VirtAddr(<<137, 0, 0, 0>>, 0),
              VirtAddr(<<0, 0, 1, 0>>, 7)}

\* The machine when kernel_main has built the mapper and the frame allocator.
InitMem ==
    /\ ExecInit
    /\ writer = Writer_new(BlankScreen)
    /\ remaining = [t \in SimpleIds |-> 0]
    /\ int_flag = TRUE
    /\ BootStatics
    /\ entry = "none"
    /\ bpc = "none"
    /\ HeapStatics
    /\ CpuStatics
    /\ frames_left = MaxStackFrames
    /\ memory_map \in BootMemoryMaps
    /\ fa_next = 0
    /\ fa_out = <<>>
    /\ level_4_table_frame = 1
    /\ tables = BootTables
    /\ ih_pc = "none"
    /\ ih_page = 0
    /\ assigned = <<>>
    /\ tr = [op |-> "none", addr |-> VirtAddr(<<0, 0, 0, 0>>, 0),
             res |-> [kind |-> "None", phys |-> 0, reads |-> 0]]

MemNext ==
    \/ allocate_frame_call
    \/ init_heap_enter
    \/ init_heap_page
    \/ init_heap_return
    \/ \E addr \in QueryAddrs : translate_addr(addr)

SpecMem == InitMem /\ [][MemNext]_vars

\* A SimpleExecutor given up to MaxSimpleTasks Tasks and then run, each Task's
\* future Ready after 0 to MaxPending polls or never; the caller is the only
\* thread of control and keeps executing.
InitSimple ==
    /\ ExecInit
    /\ writer = Writer_new(BlankScreen)
    /\ remaining \in [SimpleIds -> (0 .. MaxPending) \cup {NeverReady}]
    /\ int_flag = TRUE
    /\ BootStatics
    /\ HeapStatics
    /\ MemStatics
    /\ CpuStatics
    /\ frames_left = MaxStackFrames
    /\ entry = "none"
    /\ bpc = "none"

SimpleNext ==
    \/ \E t \in SimpleIds : SimpleExecutor_spawn(t)
    \/ SimpleExecutor_run
    \/ SimpleExecutor_run_pop
    \/ SimpleExecutor_run_match

FairSpecSimple == InitSimple /\ [][SimpleNext]_vars /\ WF_vars(SimpleNext)

\* A Writer over a text buffer, written one byte at a time.
InitVga ==
    /\ ExecInit
    /\ writer \in {Writer_new(BlankScreen), Writer_new(RowScreen)}
    /\ remaining = [t \in SimpleIds |-> 0]
    /\ int_flag = TRUE
    /\ BootStatics
    /\ HeapStatics
    /\ MemStatics
    /\ CpuStatics
    /\ frames_left = MaxStackFrames
    /\ entry = "none"
    /\ bpc = "none"

VgaNext ==
    \E byte \in {Newline, CharOf(vga_writes)} : Writer_write(byte)

SpecVga == InitVga /\ [][VgaNext]_vars

\* The machine as the bootloader hands it over: interrupts disabled, statics
\* untouched, the boot page tables active, and one of the entry points about
\* to run: kernel_main, test_kernel_main of the library's tests, or _start of
\* tests/stack_overflow.rs with a boot stack of 0 .. MaxStackFrames frames.
InitBoot ==
    /\ ExecInit
    /\ writer = Writer_new(BlankScreen)
    /\ remaining = [t \in SimpleIds |-> 0]
    /\ int_flag = FALSE
    /\ BootStatics
    /\ HeapStatics
    /\ CpuStatics
    /\ memory_map = <<>>
    /\ fa_next = 0
    /\ fa_out = <<>>
    /\ level_4_table_frame = 1
    /\ tables = BootTables
    /\ ih_pc = "none"
    /\ ih_page = 0
    /\ assigned = <<>>
    /\ tr = [op |-> "none", addr |-> VirtAddr(<<0, 0, 0, 0>>, 0),
             res |-> [kind |-> "None", phys |-> 0, reads |-> 0]]
    /\ entry \in {"kernel_main", "test_kernel_main", "stack_overflow"}
    /\ frames_left \in IF entry = "stack_overflow" THEN 0 .. MaxStackFrames
                        ELSE {MaxStackFrames}
    /\ bpc = "start"

BootMain ==
    \/ entry_point
    \/ gdt_init
    \/ init_idt
    \/ init_pics_lock
    \/ init_pics_initialize
    \/ init_enable
    \/ kernel_main_init_heap
    \/ kernel_main_box
    \/ panic_handler
    \/ test_runner
    \/ breakpoint_handler
    \/ breakpoint_iret
    \/ test_ok
    \/ exit_qemu
    \/ stack_overflow_start
    \/ init_test_idt
    \/ stack_overflow
    \/ test_double_fault_handler
    \/ \E addr \in FaultAddrs, code \in AccessKinds : page_fault(addr, code)
    \/ page_fault_handler
    \/ double_fault_handler
    \/ vga_print_lock
    \/ vga_print_write
    \/ vga_print_unlock
    \/ serial_print_disable
    \/ serial_print_lock
    \/ serial_print_write
    \/ serial_print_unlock
    \/ serial_print_restore

BootNext ==
    \/ BootMain
    \/ timer_interrupt_handler
    \/ \E b \in Scancodes : keyboard_interrupt_handler(b)

SpecBoot == InitBoot /\ [][BootNext]_vars

\* The boot sequence kept executing: the main context is the only thread of
\* control, and it advances unless a handler that pre-empted it spins.
\* Interrupt arrival is left unconstrained.
FairSpecBoot == InitBoot /\ [][BootNext]_vars /\ WF_vars(BootMain)

\* Identifiers of the Tasks that were passed to spawn.
Spawned == {issued[i] : i \in 1 .. Len(issued)} \ created

\* ------------------------------------------------------------------ claims

\* The run loop is idle, every handle handed out has been invoked, and the
\* executor holds nothing: as many completions as spawned Tasks.
C1_AllCompleted ==
    /\ pc = "hlt"
    /\ handles = {}
    /\ completions = Cardinality(Spawned)
    /\ done = Spawned
    /\ tasks = {}
    /\ waker_cache = {}

\* C1: N Tasks spawned within the capacity of the ready queue, each returning
\* Pending once and Ready on the poll after its wake: whenever the run loop halts
\* with every handle invoked there have been exactly N completions and the task
\* table and the waker cache are empty; no Task is polled after it returned
\* Ready; and the run loop does get there.
C1_OnceScenario ==
    /\ []((pc = "hlt" /\ handles = {}) => C1_AllCompleted)
    /\ [](completions <= Cardinality(Spawned))
    /\ []((pc = "poll") => cur \notin done)
    /\ [](panicked # "resumed after completion")
    /\ <>(panicked = "queue full" \/ C1_AllCompleted)

\* As many Tasks as the ready queue holds were spawned and all have completed.
C1_Witness ==
    /\ C1_AllCompleted
    /\ Cardinality(Spawned) = QueueCap


C3_NoMissedWake ==
    /\ (pc \in {"check", "halting"} => ~int_flag)
    /\ (pc = "hlt" => task_queue = <<>> /\ int_flag)

\* A handler's wake landed after run_ready_tasks saw the queue empty and before
\* the check: the check runs with the identifier already queued.
C3_Witness == pc = "check" /\ ev.op = "cli" /\ task_queue # <<>>

\* C4 as stated: every invocation of a wake handle enqueues its identifier and
\* does not fail, also on a full queue.
C4_WakeNeverFails ==
    [][ev'.op = "wake" =>
          /\ task_queue' = Append(task_queue, ev'.id)
          /\ panicked' = "none"]_vars

\* C4 amended: a wake enqueues exactly its own identifier at the back of the
\* ready queue, once per invocation, while the queue has room; on a queue that
\* holds its full capacity it enqueues nothing and fails with "task_queue full".
C4_WakeContract ==
    [][ev'.op = "wake" =>
          IF Len(task_queue) < QueueCap
          THEN /\ task_queue' = Append(task_queue, ev'.id)
               /\ panicked' = "none"
          ELSE /\ task_queue' = task_queue
               /\ panicked' = "task_queue full"]_vars

\* The same task woken a second time before it was polled: two entries.
C4_Witness == ev.op = "wake" /\ Count(task_queue, ev.id) = 2 /\ panicked = "none"

\* C5: poll_next loses no wake-up.  A parked print_keypresses Task whose
\* identifier is not on the ready queue has its Waker registered and the
\* scancode queue empty; so with a byte in the scancode queue a parked Task is
\* always on the ready queue, wherever add_scancode fell relative to the two
\* pops and the registration.
C5_NoLostWakeup ==
    \A t \in TaskIds :
        (Suspended(t) /\ Count(task_queue, t) = 0) =>
            (WAKER = t /\ SCANCODE_QUEUE = <<>>)

\* add_scancode fell between the registration and the second pop: the Waker was
\* taken and invoked, and the second pop finds the byte.
C5_Witness ==
    /\ pc = "poll"
    /\ kstep = "pop2"
    /\ ev.op = "wake"
    /\ WAKER = NoTask
    /\ SCANCODE_QUEUE # <<>>
    /\ Count(task_queue, cur) = 1

\* C6: every critical section on WRITER, SERIAL1 and PICS runs with interrupts
\* disabled, and no interrupt handler spins on a lock that the code it
\* pre-empted holds.
C6_NoSelfDeadlock ==
    /\ WRITER = "main" => ~int_flag
    /\ SERIAL1 = "main" => ~int_flag
    /\ PICS = "main" => ~int_flag
    /\ spin = "none"

\* The operations of a handler's log, without their arguments.
OpsOf(log) == [i \in 1 .. Len(log) |-> log[i].op]

\* The vectors a handler signalled the end of interrupt for, in order.
EoisOf(log) ==
    LET idx == {i \in 1 .. Len(log) : log[i].op = "eoi"}
        f[n \in 0 .. Len(log)] ==
            IF n = 0 THEN <<>>
            ELSE IF n \in idx THEN Append(f[n - 1], log[n].arg) ELSE f[n - 1]
    IN f[Len(log)]

\* C11: a keyboard interrupt handler that has returned has read one byte from
\* the data port, handed it to add_scancode and signalled the end of interrupt
\* for the keyboard vector, and has done nothing else (no lock of its own, no
\* decoding, no printing).
C11_KeyboardHandlerEnqueues ==
    (hvec = InterruptIndex_Keyboard /\ spin = "none") =>
        OpsOf(hlog) = <<"port.read", "add_scancode", "eoi">>

\* C12: a timer or keyboard handler that has returned has signalled the end of
\* interrupt exactly once, for its own vector (32 for the timer, 33 for the
\* keyboard), as its last operation; a handler that has not returned has not
\* signalled it yet.
C12_EoiOncePerInterrupt ==
    /\ hvec \in {0, 32, 33}
    /\ hvec # 0 =>
        IF spin = "none"
        THEN /\ EoisOf(hlog) = <<hvec>>
             /\ hlog[Len(hlog)].op = "eoi"
        ELSE EoisOf(hlog) = <<>>

\* Both handlers have run to their end, the keyboard handler last and after
\* printing a key.
C12_Witness ==
    /\ hvec = InterruptIndex_Keyboard
    /\ spin = "none"
    /\ OpsOf(hlog) = <<"KEYBOARD.lock", "port.read", "decode", "print", "eoi">>
    /\ column_position > 1

\* C13: an add_scancode that finds the scancode queue full or not initialised
\* drops the byte: it leaves the scancode queue, the AtomicWaker and the ready
\* queue as they are, emits its warning, does not panic, and returns so that
\* execution continues.
C13_AddScancodeDrops ==
    [][(keys' = keys + 1 /\ (~scq_init \/ Len(SCANCODE_QUEUE) >= ScancodeCap)) =>
          /\ SCANCODE_QUEUE' = SCANCODE_QUEUE
          /\ WAKER' = WAKER
          /\ task_queue' = task_queue
          /\ ev'.op = "drop"
          /\ panicked' = "none"
          /\ spin' = "none"]_vars

\* C14: an acquire that fits in the region after the requests accepted before
\* it returns a non-null pointer, aligned as requested, whose block lies in
\* [HEAP_START, HEAP_START + HEAP_SIZE) and overlaps no other live block; an
\* acquire that does not fit returns null.
C14_AcquireContract ==
    h_last.op = "alloc" =>
        IF h_last.fits
        THEN /\ h_last.ptr # null_mut
             /\ h_last.ptr % h_last.align = 0
             /\ h_last.ptr >= 0
             /\ h_last.ptr + h_last.size <= HEAP_SIZE
             /\ \A b \in h_live :
                    \/ b.ptr = h_last.ptr
                    \/ b.ptr + b.size <= h_last.ptr
                    \/ h_last.ptr + h_last.size <= b.ptr
        ELSE h_last.ptr = null_mut

\* C15: with no allocation outstanding (none made yet, or every one released)
\* an acquire that fits in the region returns the region's start; and a release
\* of a block that acquire returned does not panic.
C15_RoundTrip ==
    /\ (h_last.op = "alloc" /\ h_last.outstanding = 0 /\ h_last.size <= HEAP_SIZE) =>
           h_last.ptr = 0
    /\ (h_last.op = "dealloc" /\ h_last.outstanding > 0) => panicked = "none"

\* C16: a release returns normally and takes one allocation off the live
\* count.
C16_ReleaseDecrements ==
    [][(h_calls' = h_calls + 1 /\ h_last'.op = "dealloc") =>
          /\ panicked' = "none"
          /\ Cardinality(h_live') = Cardinality(h_live) - 1]_vars

\* The frame f lies in a region of the memory map that is marked usable.
InUsableRegion(f) ==
    \E i \in 1 .. Len(memory_map) :
        /\ memory_map[i].usable
        /\ memory_map[i].start <= f
        /\ f < memory_map[i].end

\* C17: across all allocate_frame calls so far no frame was returned twice,
\* every returned frame lies in a usable region of the memory map, exhausted
\* is returned only once every usable frame has been handed out, and after an
\* exhausted result every later result is exhausted.
C17_FramesNeverReused ==
    \A i \in 1 .. Len(fa_out) :
        /\ fa_out[i] # NoFrame => InUsableRegion(fa_out[i])
        /\ fa_out[i] = NoFrame =>
              \A f \in 0 .. (10 + MaxFirstRegion + SecondRegionFrames) :
                  InUsableRegion(f) => \E j \in 1 .. (i - 1) : fa_out[j] = f
        /\ \A j \in (i + 1) .. Len(fa_out) :
              /\ fa_out[j] = fa_out[i] => fa_out[i] = NoFrame
              /\ fa_out[i] = NoFrame => fa_out[j] = NoFrame

\* init_heap has returned Ok, later calls have used up the rest of the map and
\* allocate_frame has reported exhaustion twice.
C17_Witness ==
    /\ ih_pc = "Ok"
    /\ Count(fa_out, NoFrame) >= 2
    /\ Len(fa_out) > HeapPages + 2

\* C18: every byte of every heap page that init_heap has mapped translates to
\* the frame allocated for its page when it was mapped, plus the page offset,
\* in every later state (while later pages are mapped, tables are created and
\* frames are allocated).
C18_TranslationStable ==
    \A k \in 1 .. Len(assigned) : \A off \in {0, 1, PAGE_SIZE - 1} :
        LET res == translate_addr_inner(tables, level_4_table_frame,
                                        VirtAddr(HeapPage(k - 1), off))
        IN /\ res.kind = "Some"
           /\ res.phys = assigned[k] * PAGE_SIZE + off

\* The whole heap is mapped, frames were allocated after that, and the last
\* byte of the heap has been translated.
C18_Witness ==
    /\ ih_pc = "Ok"
    /\ Len(fa_out) > HeapPages + 3
    /\ tr.op = "translate"
    /\ tr.addr = VirtAddr(HeapPage(HeapPages - 1), PAGE_SIZE - 1)
    /\ tr.res.kind = "Some"
    /\ tr.res.phys = assigned[HeapPages] * PAGE_SIZE + PAGE_SIZE - 1

\* The entries on the walk of addr, by level (1 for the level 4 table), each
\* looked up in the table the entry before it points to.
WalkEntries(addr) ==
    LET e[i \in 1 .. 4] ==
            EntryAt(tables, IF i = 1 THEN level_4_table_frame ELSE e[i - 1].frame,
                    addr.idx[i])
    IN e

\* The first level of the walk of addr whose entry is not present or is a huge
\* page, 0 if there is none.
FirstStop(addr) ==
    LET e == WalkEntries(addr)
        bad == {i \in 1 .. 4 : ~e[i].present \/ e[i].huge}
    IN IF bad = {} THEN 0 ELSE CHOOSE i \in bad : \A j \in bad : i <= j

\* C19: translate_addr returns None exactly when the first entry of the walk
\* that is not a present 4 KiB entry is not present, having read one entry per
\* level down to that one and none below; it panics with 'huge pages not
\* supported' when that entry is a present huge page; otherwise it returns
\* Some.
C19_UnmappedIsNone ==
    /\ \A addr \in QueryAddrs :
          LET res == translate_addr_inner(tables, level_4_table_frame, addr)
              stop == FirstStop(addr)
          IN IF stop = 0 THEN res.kind = "Some" /\ res.reads = 4
             ELSE /\ res.reads = stop
                  /\ res.phys = 0
                  /\ res.kind = IF WalkEntries(addr)[stop].present THEN "panic"
                                ELSE "None"
    /\ (tr.op = "translate" /\ tr.res.kind = "panic") =>
           panicked = "huge pages not supported"
    /\ (tr.op = "translate" /\ tr.res.kind # "panic") => panicked = "none"

\* The heap is mapped and translate_addr has returned None for the address
\* whose level 1 entry is not present but still holds a frame.
C19_Witness ==
    /\ ih_pc = "Ok"
    /\ tr.op = "translate"
    /\ tr.addr.idx = <<0, 0, 0, 185>>
    /\ tr.res.kind = "None"
    /\ tr.res.reads = 4

\* Frames that the boot page tables use or map.
BootFrames ==
    {1} \cup {x.pte.frame : x \in BootEntries}

\* C20: the heap range has 25 pages.  When init_heap returns Ok every one of
\* them is mapped, present and writable, to a frame of its own that the frame
\* allocator returned during the call, the parent tables it created come from
\* the same allocator, and the pages next to the range are not mapped.  When
\* the allocator is exhausted init_heap returns FrameAllocationFailed, and it
\* returns no other error and does not panic (the only panic is the one of a
\* translate_addr call that met a huge page).
C20_InitHeapMapsRange ==
    /\ HeapPages = 25
    /\ ih_pc \in {"none", "loop", "Ok", "FrameAllocationFailed"}
    /\ ih_pc = "FrameAllocationFailed" =>
          /\ panicked = "none" \/ tr.res.kind = "panic"
          /\ fa_out[Len(fa_out)] = NoFrame
          /\ ih_page < HeapPages
    /\ ih_pc = "Ok" =>
          /\ Len(assigned) = HeapPages
          /\ \A k \in 1 .. HeapPages :
                LET e == WalkEntries(VirtAddr(HeapPage(k - 1), 0))
                IN /\ \A i \in 1 .. 4 : e[i].present /\ e[i].writable /\ ~e[i].huge
                   /\ e[4].frame = assigned[k]
                   /\ \A i \in 1 .. 3 : Count(fa_out, e[i].frame) = 1
                   /\ Count(fa_out, assigned[k]) = 1
                   /\ assigned[k] \notin BootFrames
                   /\ \A j \in 1 .. HeapPages : assigned[j] = assigned[k] => j = k
          /\ FirstStop(VirtAddr(HeapPage(HeapPages), 0)) = 4
          /\ FirstStop(VirtAddr(HeapPage(-1), 0)) = 4

\* init_heap has returned Ok.
C20_Witness ==
    /\ ih_pc = "Ok"
    /\ ih_page = HeapPages
    /\ fa_next >= HeapPages + 3


\* C21: when init_heap has returned FrameAllocationFailed to kernel_main the
\* kernel keeps running: it has not panicked and the boot sequence is not
\* parked by the panic handler.
C21_HeapFailureRecoverable ==
    ih_pc = "FrameAllocationFailed" =>
        /\ panicked = "none"
        /\ bpc \notin {"panic", "hlt_loop"}


\* The exception delivered last was raised by a push below the boot stack.
StackOverflowed == exc.cause = "stack overflow"

\* The double fault handler in use has made its report: the test's handler has
\* printed [ok] and left QEMU with the success code, the kernel's handler has
\* panicked with the stack frame and the panic handler has printed the message.
DoubleFaultReported ==
    \/ /\ exc.handler = "test_double_fault_handler"
       /\ bpc = "exited"
       /\ \E i \in 1 .. Len(reported) : reported[i].handler = "test_double_fault_handler"
    \/ /\ exc.handler = "double_fault_handler"
       /\ bpc = "hlt_loop"
       /\ pr_kind = "none"
       /\ panicked = "EXCEPTION: DOUBLE FAULT"

\* C22: a stack overflow is delivered as a double fault whose handler runs on
\* entry DOUBLE_FAULT_IST_INDEX of the interrupt stack table, not on the
\* overflowed stack; the machine does not reset, the handler never returns to
\* the interrupted code, and it makes its report.
C22_StackOverflowReachesHandler ==
    /\ [](StackOverflowed =>
            /\ exc.vector = DoubleFault
            /\ exc.stack = TSS_interrupt_stack_table(DOUBLE_FAULT_IST_INDEX)
            /\ rsp = exc.stack
            /\ rsp \notin {"boot", "guard"}
            /\ bpc \notin {"reset", exc.ret}
            /\ ~int_flag)
    /\ (StackOverflowed ~> DoubleFaultReported)

\* The recursion of tests/stack_overflow.rs has used up a boot stack of
\* MaxStackFrames frames and test_double_fault_handler has reported.
C22_Witness ==
    /\ entry = "stack_overflow"
    /\ StackOverflowed
    /\ DoubleFaultReported
    /\ frames_left = 0
    /\ init_log = <<"GDT.load", "load_tss", "TEST_IDT.load">>


\* The exception delivered last is the breakpoint of test_breakpoint_exception.
BreakpointTaken == exc.vector = Breakpoint

\* C23: a breakpoint is not fatal.  breakpoint_handler reports the stack frame,
\* whose return position is the instruction after the int3; nothing panics or
\* resets; and the handler returns, so that the code after the int3 runs to
\* its end (the test prints [ok] and the runner leaves QEMU) on the interrupted
\* stack with the interrupt flag as it was.
C23_BreakpointResumes ==
    /\ [](BreakpointTaken =>
            /\ exc.handler = "breakpoint_handler"
            /\ exc.ret = "ok"
            /\ \E i \in 1 .. Len(reported) :
                  reported[i] = Report("breakpoint_handler", "stack_frame", "ok")
            /\ panicked = "none"
            /\ bpc \notin {"reset", "hlt_loop", "int3"})
    /\ (BreakpointTaken ~> (bpc = "exited" /\ rsp = "boot" /\ int_flag))

\* The test has run to its end after the breakpoint, and a hardware interrupt
\* was handled on the way.
C23_Witness ==
    /\ BreakpointTaken
    /\ bpc = "exited"
    /\ hvec # 0
    /\ int_flag


\* The exception delivered last is a page fault that entered page_fault_handler.
PageFaultTaken == exc.handler = "page_fault_handler"

\* page_fault_handler has printed the line `what` with the value `value`.
PfReported(what, value) ==
    \E i \in 1 .. Len(reported) :
        /\ reported[i].handler = "page_fault_handler"
        /\ reported[i].what = what
        /\ reported[i].value = value

\* page_fault_handler has printed its report and sits in hlt_loop.
PageFaultParked ==
    /\ bpc = "hlt_loop"
    /\ pr_kind = "none"
    /\ PfReported("Accessed Address", exc.addr)
    /\ PfReported("Error Code", exc.code)

\* C24: once page_fault_handler is entered the boot sequence is inside the
\* handler or parked in hlt_loop for good: it never is back at the faulting
\* instruction, the interrupt flag stays clear, nothing panics, no page table
\* entry changes and the faulting address stays unmapped; and the handler
\* reaches hlt_loop having reported the faulting address and the access kind.
C24_PageFaultParks ==
    /\ [](PageFaultTaken =>
            /\ \E i \in 1 .. Len(PfSteps) : bpc = PfSteps[i]
            /\ bpc # exc.ret
            /\ ~int_flag
            /\ panicked = "none"
            /\ translate_addr_inner(tables, level_4_table_frame, exc.addr).kind = "None")
    /\ [][PageFaultTaken =>
            /\ PageFaultTaken'
            /\ tables' = tables
            /\ exc' = exc
            /\ (bpc = "hlt_loop" /\ pr_kind = "none" => UNCHANGED vars)]_vars
    /\ (PageFaultTaken ~> PageFaultParked)

\* A write to the first heap page, which is not mapped yet, has faulted and
\* the handler is parked after its report.
C24_Witness ==
    /\ PageFaultTaken
    /\ PageFaultParked
    /\ exc.addr = VirtAddr(HeapPage(0), 8)
    /\ exc.code = "write"
    /\ Len(reported) = 4


\* The order of init(): gdt::init(), init_idt(), PICS.lock().initialize(),
\* interrupts::enable().
InitOrder == <<"GDT.load", "load_tss", "IDT.load", "PICS.initialize", "enable">>

\* s is a prefix of t.
IsPrefix(s, t) ==
    /\ Len(s) <= Len(t)
    /\ \A i \in 1 .. Len(s) : s[i] = t[i]

\* C25: init() performs its steps in the order descriptor table and task-state
\* segment, interrupt table, interrupt controllers, enable.  Whenever the
\* interrupt flag is set or a hardware interrupt has been handled, the GDT, the
\* TSS and the IDT are loaded, the PICs are remapped to vectors 32 and 40, and
\* the vectors the PICs raise for the timer and the keyboard have their
\* handlers in the loaded table.
C25_InterruptsAfterTables ==
    /\ entry # "stack_overflow" => IsPrefix(init_log, InitOrder)
    /\ (int_flag \/ hvec # 0) =>
          /\ init_log = InitOrder
          /\ gdtr = "GDT"
          /\ task_register = "TSS"
          /\ idtr = "IDT"
          /\ pic_offsets = <<32, 40>>
          /\ IdtEntry(idtr, pic_offsets[1]).handler = "timer_interrupt_handler"
          /\ IdtEntry(idtr, pic_offsets[1] + 1).handler = "keyboard_interrupt_handler"
    /\ hvec # 0 => IdtEntry(idtr, hvec).present

\* kernel_main has run init() and a keyboard interrupt has been handled.
C25_Witness ==
    /\ entry = "kernel_main"
    /\ init_log = InitOrder
    /\ hvec = InterruptIndex_Keyboard
    /\ int_flag


\* C26: kernel_main allocates nothing and fails no allocation once init_heap
\* has mapped the heap, and after a successful init_heap it enters the run
\* loop of an Executor.
C26_BootReachesRunLoop ==
    /\ []((entry = "kernel_main" /\ ih_pc = "Ok") => panicked # "memory allocation failed")
    /\ ((entry = "kernel_main" /\ ih_pc = "Ok") ~> (pc \notin {"setup"}))


\* C27: print_keypresses takes the bytes off the scancode queue in the order
\* they were enqueued, and for each byte it has taken it prints exactly one
\* character when the byte is the make code of a key with a character, and
\* nothing when it is a break code or decodes to a raw key.
C27_KeyboardBridge ==
    [][/\ Len(SCANCODE_QUEUE') < Len(SCANCODE_QUEUE) =>
             /\ scancode' = Head(SCANCODE_QUEUE)
             /\ SCANCODE_QUEUE' = Tail(SCANCODE_QUEUE)
       /\ (kstep = "got" /\ kstep' # "got") =>
             IF DecodedKey(scancode) = "Unicode"
             THEN pr_kind' = "vga" /\ Len(pr_bytes') = 1
             ELSE pr_kind' = "none" /\ pr_bytes' = <<>>]_vars


\* A step that is a call of ScancodeStream::new by the polled Task.
StreamNew == pc = "poll" /\ fut[cur] = "start" /\ ev'.op = "stream"

\* C28: the scancode queue is created exactly once.  The first
\* ScancodeStream::new initialises it, empty and bounded; once initialised it
\* stays initialised and changes only by one push at the tail or one pop at the
\* head; a later ScancodeStream::new panics and leaves the queue and the bytes
\* in it as they are.
C28_QueueCreatedOnce ==
    [][/\ scq_init => scq_init'
       /\ ~scq_init /\ scq_init' => StreamNew /\ SCANCODE_QUEUE' = <<>>
       /\ ~scq_init /\ StreamNew => scq_init' /\ panicked' = "none"
       /\ scq_init /\ StreamNew =>
             /\ panicked' = "ScancodeStream::new should only be called once"
             /\ SCANCODE_QUEUE' = SCANCODE_QUEUE
       /\ SCANCODE_QUEUE' # SCANCODE_QUEUE =>
             /\ scq_init
             /\ \/ SCANCODE_QUEUE # <<>> /\ SCANCODE_QUEUE' = Tail(SCANCODE_QUEUE)
                \/ \E b \in KbdScancodes : SCANCODE_QUEUE' = Append(SCANCODE_QUEUE, b)
       /\ Len(SCANCODE_QUEUE') <= ScancodeCap]_vars

\* A second ScancodeStream::new has panicked while bytes were enqueued.
C28_Witness ==
    /\ panicked = "ScancodeStream::new should only be called once"
    /\ SCANCODE_QUEUE # <<>>


\* C29: run_ready_tasks takes identifiers off the head of the ready queue, one
\* per iteration, and leaves the loop only when it finds the queue empty.  A
\* poll starts only with such a pop, of an identifier that is in the task
\* table, and it is a poll of that task, so each queue entry gives at most one
\* poll; the pop of an identifier that is not in the table starts no poll and
\* leaves the waker cache as it is.
C29_RunReadyTasksPass ==
    [][/\ Len(task_queue') < Len(task_queue) =>
             /\ pc = "rrt"
             /\ task_queue' = Tail(task_queue)
             /\ IF Head(task_queue) \in tasks
                THEN /\ pc' = "poll"
                     /\ cur' = Head(task_queue)
                     /\ waker_cache' = waker_cache \cup {Head(task_queue)}
                ELSE /\ pc' = "rrt"
                     /\ cur' = cur
                     /\ waker_cache' = waker_cache
       /\ pc # "poll" /\ pc' = "poll" => Len(task_queue') < Len(task_queue)
       /\ pc = "poll" /\ pc' # "poll" => pc' = "ret"
       /\ pc = "ret" /\ pc' # "ret" => pc' = "rrt" /\ cur' = NoTask
       /\ pc = "rrt" /\ pc' = "sleep" => task_queue = <<>>
       /\ pc = "rrt" /\ pc' \notin {"rrt", "sleep"} => pc' = "poll"]_vars

\* The identifier of a completed task has been popped and discarded, and the
\* waker cache holds nothing for it.
C29_Witness ==
    /\ ev.op = "skip"
    /\ ev.id \in done
    /\ ev.id \notin tasks
    /\ ev.id \notin waker_cache
    /\ pc = "rrt"


\* C30: poll_next never reports the end of the stream.  A poll of a
\* print_keypresses Task returns to the executor only with Pending, and at that
\* return the Task's Waker is the one registered in WAKER and the queue is
\* empty; no Task completes and none leaves the task table.
C30_StreamNeverEnds ==
    [][/\ result' \in {"none", "Pending"}
       /\ done' = {}
       /\ tasks \subseteq tasks'
       /\ pc = "poll" /\ pc' # "poll" =>
             /\ pc' = "ret"
             /\ result' = "Pending"
             /\ fut'[cur'] = "await"
             /\ WAKER' = cur'
             /\ SCANCODE_QUEUE' = <<>>]_vars

\* poll_next has returned Pending after handing a byte to print_keypresses: the
\* Task is parked in the table with its Waker registered.
C30_Witness ==
    /\ pc = "ret"
    /\ result = "Pending"
    /\ cur \in tasks
    /\ WAKER = cur
    /\ ev = Ev("pop2", cur)
    /\ column_position > 0


\* The byte that the second pop of poll_next has taken and not yet returned.
InFlight == IF kstep = "take" THEN <<scancode>> ELSE <<>>

\* C31: the bytes that poll_next has returned, followed by the byte it holds
\* and by the bytes in the queue, are the bytes that add_scancode accepted, in
\* the order it accepted them: no byte is delivered twice, out of order or
\* lost, wherever the add_scancode calls fall between the steps of poll_next;
\* the byte print_keypresses works on is the one delivered last.
C31_ScancodesInOrder ==
    /\ accepted = delivered \o InFlight \o SCANCODE_QUEUE
    /\ kstep = "got" => delivered # <<>> /\ scancode = delivered[Len(delivered)]
    /\ Len(accepted) <= keys

\* Two different bytes have been delivered, the second is being printed, a
\* third waits in the queue and one add_scancode call was rejected.
C31_Witness ==
    /\ Len(delivered) >= 2
    /\ delivered[1] # delivered[2]
    /\ SCANCODE_QUEUE # <<>>
    /\ Len(accepted) < keys
    /\ kstep = "got"
    /\ WAKER = NoTask


\* The main context is inside sleep_if_idle, after interrupts::disable() and
\* before the enable or enable_and_hlt that follows the emptiness check.
InSleepIfIdle == pc \in {"check", "halting"}

\* C32: sleep_if_idle returns with interrupts enabled on both branches.  The
\* interrupt flag is cleared only by the disable call of sleep_if_idle and is
\* clear only until the enable, or enable_and_hlt, that follows the emptiness
\* check, so run_ready_tasks and every poll it makes run with interrupts
\* enabled.
C32_SleepIfIdleReenables ==
    [][/\ InSleepIfIdle /\ ~InSleepIfIdle' => int_flag' /\ pc' \in {"rrt", "hlt"}
       /\ int_flag /\ ~int_flag' => pc = "sleep" /\ pc' = "check"
       /\ ~int_flag' => InSleepIfIdle'
       /\ pc' \in {"rrt", "poll", "ret"} => int_flag']_vars

\* sleep_if_idle found the queue not empty, because a wake fell between the end
\* of run_ready_tasks and the disable, enabled interrupts and returned.
C32_Witness ==
    /\ ev = Ev("sti", NoTask)
    /\ pc = "rrt"
    /\ int_flag
    /\ task_queue # <<>>


\* The frames the frame allocator has handed out and will not hand out again:
\* those before its cursor.
Consumed == {UsableFrames(memory_map)[i] : i \in 1 .. fa_next}

\* The four entries that the walk of the tables t from the level 4 table in
\* cr3 reads for the page with the table indexes idx.
PageWalk(t, cr3, idx) ==
    LET e1 == EntryAt(t, cr3, idx[1])
        e2 == EntryAt(t, e1.frame, idx[2])
        e3 == EntryAt(t, e2.frame, idx[3])
        e4 == EntryAt(t, e3.frame, idx[4])
    IN <<e1, e2, e3, e4>>

\* init_heap has returned an error.
InitHeapFailed == ih_pc \notin {"none", "loop", "Ok"}

\* C33: init_heap has no rollback.  At the step by which it fails, the pages
\* it mapped before are still mapped to their frames, and their frames and the
\* frames of the tables on their path are frames the allocator has handed out
\* and keeps as such; the failing iteration maps no page and moves the cursor
\* only by the frames it took before it failed.  From then on init_heap changes
\* nothing: the tables and the mapped pages stay as they are, and the cursor of
\* the frame allocator never moves back, then or at any other step.
C33_InitHeapNoRollback ==
    [][/\ fa_next' >= fa_next
       /\ Len(assigned') = ih_page'
       /\ SubSeq(assigned', 1, Len(assigned)) = assigned
       /\ ~InitHeapFailed /\ InitHeapFailed' =>
             /\ ih_page' = ih_page
             /\ fa_next' - fa_next =
                   Len(fa_out') - Len(fa_out) - Count(fa_out', NoFrame)
                       + Count(fa_out, NoFrame)
             /\ fa_next' = fa_next => tables' = tables
             /\ \A k \in 1 .. ih_page' :
                   LET e == PageWalk(tables', level_4_table_frame', HeapPage(k - 1))
                   IN /\ \A i \in 1 .. 4 : e[i].present
                      /\ e[4].frame = assigned'[k]
                      /\ assigned'[k] \in Consumed'
                      /\ \A i \in 1 .. 3 : e[i].frame \in Consumed' \cup BootFrames
       /\ InitHeapFailed =>
             /\ ih_pc' = ih_pc
             /\ tables' = tables
             /\ level_4_table_frame' = level_4_table_frame
             /\ memory_map' = memory_map
             /\ assigned' = assigned]_vars

\* init_heap failed after it had mapped pages: they and the tables created for
\* them hold frames that the allocator counts as handed out.
C33_Witness ==
    /\ ih_pc = "FrameAllocationFailed"
    /\ ih_page >= 2
    /\ fa_next >= ih_page + 3
    /\ PageWalk(tables, level_4_table_frame, HeapPage(ih_page - 1))[4].frame
          = assigned[ih_page]


\* The Tasks given to SimpleExecutor::spawn.
SimpleSpawned == {spawned[i] : i \in 1 .. Len(spawned)}

\* The Task u had returned Ready before the i-th poll of the run.
ReadyBefore(u, i) ==
    /\ u \in finished
    /\ \A k \in i .. Len(polled) : polled[k] # u

\* Between two successive polls of one Task, every other Task that was still
\* queued is polled once, and a Task that had returned Ready is not polled.
RoundRobin ==
    \A i, j \in 1 .. Len(polled) :
        (/\ i < j
         /\ polled[i] = polled[j]
         /\ \A k \in (i + 1) .. (j - 1) : polled[k] # polled[i])
        => \A u \in SimpleSpawned \ {polled[i]} :
              Cardinality({k \in (i + 1) .. (j - 1) : polled[k] = u})
                  = IF ReadyBefore(u, i) THEN 0 ELSE 1

\* C34: SimpleExecutor::run polls the Task at the front of the queue, pushes a
\* Task that returned Pending on the back and drops one that returned Ready,
\* and returns exactly when it finds the queue empty.  A Task that returned
\* Ready is not polled again, and between two polls of a pending Task every
\* other queued Task is polled once.  run returns only with every spawned Task
\* Ready, never while a spawned future is never Ready, and it does return when
\* every spawned future becomes Ready.
C34_SimpleExecutorRun ==
    /\ [][/\ simple_pc = "run" /\ simple_pc' = "poll" =>
                /\ task' = Head(simple_task_queue)
                /\ simple_task_queue' = Tail(simple_task_queue)
                /\ polled' = Append(polled, task')
                /\ task' \notin finished
          /\ simple_pc = "poll" /\ simple_pc' # "poll" =>
                /\ simple_pc' = "run"
                /\ polled' = polled
                /\ IF remaining[task] = 0
                   THEN /\ simple_task_queue' = simple_task_queue
                        /\ finished' = finished \cup {task}
                   ELSE /\ simple_task_queue' = Append(simple_task_queue, task)
                        /\ finished' = finished
          /\ simple_pc = "run" /\ simple_pc' # "run" =>
                simple_pc' = IF simple_task_queue = <<>> THEN "returned" ELSE "poll"
          /\ simple_pc = "returned" => simple_pc' = "returned" /\ polled' = polled]_vars
    /\ []RoundRobin
    /\ [](simple_pc = "returned" => simple_task_queue = <<>> /\ SimpleSpawned = finished)
    /\ []((\E t \in SimpleSpawned : remaining[t] = NeverReady) => simple_pc # "returned")
    /\ (simple_pc = "run" /\ \A t \in SimpleSpawned : remaining[t] # NeverReady)
          ~> (simple_pc = "returned")

\* run has returned after polling every one of MaxSimpleTasks Tasks, some of
\* them more than once.
C34_Witness ==
    /\ simple_pc = "returned"
    /\ Len(spawned) = MaxSimpleTasks
    /\ Len(polled) >= MaxSimpleTasks + 2
    /\ finished = SimpleSpawned


\* The rows of the buffer after, against the rows before: every row but the
\* last holds what the row below it held.
RowsShiftedUp(before, after) ==
    \A row \in 0 .. (BUFFER_HEIGHT - 2) : after[row] = before[row + 1]

\* A row that is blank from the column col on.
BlankFrom(cells, col) ==
    \A c \in col .. (BUFFER_WIDTH - 1) : cells[c] = Blank

\* C35: whatever bytes are written, column_position stays in 0 .. 80, a
\* character is written to row 24 at a column below 80, and no write indexes
\* outside the buffer or panics.  The newline byte shifts rows 1 .. 24 up by
\* one, blanks the last row and sets the column to 0; a character written when
\* the line is full does the same first and lands in column 0; any other
\* character changes the one cell under the column and advances the column.
C35_WriterStaysInBuffer ==
    [][LET byte == vga_last'.byte
           last == BUFFER_HEIGHT - 1
       IN /\ writer'.column_position \in 0 .. BUFFER_WIDTH
          /\ ~writer'.panic
          /\ panicked' = "none"
          /\ vga_writes' = vga_writes + 1
          /\ writer'.column_position = write_byte(writer.column_position, byte)
          /\ DOMAIN writer'.chars = 0 .. last
          /\ byte # Newline =>
                /\ vga_last'.row = last
                /\ vga_last'.col \in 0 .. (BUFFER_WIDTH - 1)
                /\ vga_last'.col = writer'.column_position - 1
                /\ writer'.chars[last][vga_last'.col] = byte
          /\ IF byte = Newline
             THEN /\ RowsShiftedUp(writer.chars, writer'.chars)
                  /\ BlankFrom(writer'.chars[last], 0)
                  /\ writer'.column_position = 0
             ELSE IF writer.column_position = BUFFER_WIDTH
             THEN /\ RowsShiftedUp(writer.chars, writer'.chars)
                  /\ BlankFrom(writer'.chars[last], 1)
                  /\ vga_last'.col = 0
             ELSE /\ writer'.chars =
                        [writer.chars EXCEPT ![last][writer.column_position] = byte]
                  /\ writer'.column_position = writer.column_position + 1]_vars

\* A character has been written to a full line of a screen that held
\* something: the full line is now row 23, the character is alone on row 24
\* and the former row 1 is row 0.
C35_Witness ==
    /\ vga_writes = BUFFER_WIDTH + 1
    /\ vga_newlines = 0
    /\ vga_last.col = 0
    /\ writer.column_position = 1
    /\ writer.chars[BUFFER_HEIGHT - 2][BUFFER_WIDTH - 1] = CharOf(BUFFER_WIDTH - 1)
    /\ writer.chars[BUFFER_HEIGHT - 1][0] = CharOf(BUFFER_WIDTH)
    /\ writer.chars[BUFFER_HEIGHT - 1][1] = Blank
    /\ writer.chars[0] = RowScreen[1]

\* C7: spawn stores the task under its identifier and pushes the identifier
\* once; on a full ready queue it fails with "queue full".
C7_SpawnContract ==
    [][ev'.op = "spawn" =>
          /\ ev'.id \in tasks'
          /\ IF Len(task_queue) < QueueCap
             THEN /\ task_queue' = Append(task_queue, ev'.id)
                  /\ Count(task_queue', ev'.id) = 1
                  /\ panicked' = "none"
             ELSE /\ task_queue' = task_queue
                  /\ panicked' = "queue full"]_vars

\* A spawn on a ready queue that already held its capacity.
C7_Witness ==
    /\ ev.op = "spawn"
    /\ panicked = "queue full"
    /\ Len(task_queue) = QueueCap
    /\ ev.id \in tasks

\* C8: identifiers are strictly increasing in the order TaskId::new hands them
\* out, hence pairwise distinct, and spawn never finds its identifier in the
\* task table.
C8_IdsNeverReused ==
    /\ \A i, j \in 1 .. Len(issued) : i < j => issued[i] < issued[j]
    /\ panicked # "task with same ID already in tasks"

\* Every Task of the bound was created, one has completed and another is live.
C8_Witness == Len(issued) = MaxTasks /\ done # {} /\ tasks # {}

\* C9: an identifier enters the ready queue only by the spawn of that task or a
\* wake carrying that identifier, never by a step of the run loop, and a poll
\* starts only by taking the task's identifier off the head of the queue.
C9_OnlyWakeRequeues ==
    [][/\ \A t \in TaskIds :
             Count(task_queue', t) > Count(task_queue, t) =>
                 ev'.id = t /\ ev'.op \in {"spawn", "wake"}
       /\ \A t \in TaskIds :
             (cur # t /\ cur' = t) =>
                 /\ task_queue # <<>>
                 /\ Head(task_queue) = t
                 /\ task_queue' = Tail(task_queue)]_vars

\* A task that handed out its handle in an earlier poll and stayed in the table
\* is polled again.
C9_Witness == ev.op = "poll" /\ ev.id \in handles /\ Count(task_queue, ev.id) = 0

\* C10: when poll returns Ready the task and its cached wake handle leave the
\* executor, a completed task is not polled again, and after every step the
\* waker cache holds identifiers of the task table only.
C10_CompletionTerminal ==
    [][/\ (ev'.op = "match" /\ result = "Ready") =>
             cur \notin tasks' /\ cur \notin waker_cache'
       /\ waker_cache' \subseteq tasks'
       /\ (ev'.op = "poll" => ev'.id \notin done)]_vars

\* A task has completed and was removed while another is still in the table
\* with its cached handle.
C10_Witness ==
    /\ ev.op = "match"
    /\ ev.id \in done
    /\ ev.id \notin tasks
    /\ waker_cache # {}

====
